---- MODULE Spec2Model ----
(***************************************************************************)
(* The file-resolution layer of the compiler facade: SystemWorld, its      *)
(* mutex-guarded slot map, FileSlot, SlotCell::get_or_init, system_path,   *)
(* read and read_from_disk (src/src/world.rs), driven by compile()         *)
(* (src/src/compile.rs), over a filesystem that other processes mutate.    *)
(***************************************************************************)
EXTENDS Integers, Sequences, FiniteSets, TLC

\* ------------------------------------------------------------------ bounds
\* Worker threads of the compiler engine that call into one SystemWorld.
NThreads == 2
\* compile() invocations (passes) in one behaviour.
MaxPass == 2
\* Range of the modelled fingerprint: hash128 truncated, so that collisions
\* (and the value 0 of a fresh cell) occur among the modelled files.
HashRange == 8
\* The wall clock (hours) stops advancing here.
MaxClock == 25

Threads == 1..NThreads
NoThread == 0

\* ------------------------------------------------------------ basic values
\* Option<T> is a sequence of length 0 (None) or 1 (Some).
None == <<>>
Some(v) == <<v>>
IsSome(o) == Len(o) = 1
Unwrap(o) == o[1]

\* FileResult<T>: Ok(value) or Err(FileError). The value of both views is a
\* byte string (raw bytes, or the decoded text of a Source).
Ok(v) == [ok |-> TRUE, val |-> v, err |-> "", path |-> <<>>, pkg |-> ""]
Err(kind, path, pkg) == [ok |-> FALSE, val |-> <<>>, err |-> kind, path |-> path, pkg |-> pkg]

\* ------------------------------------------------------------- filesystem
\* Absolute paths are sequences of components below the filesystem root.
ProjectRoot == <<"r">>
MainPath == <<"r", "a">>
LockedPath == <<"r", "k">>
BadPath == <<"r", "b">>
BomPath == <<"r", "m">>
Bom2Path == <<"r", "n">>
BomBadPath == <<"r", "o">>
SecretPath == <<"s">>
CacheDir == <<"c">>

Bom == <<239, 187, 191>>
BytesHi == <<104, 105>>
BytesEmpty == <<>>
BytesBom == Bom \o <<104>>
BytesBad == <<104, 255>>
BytesBom2 == Bom \o Bom \o <<104>>
BytesBomBad == Bom \o <<104, 195>>
BytesSecret == <<115>>
BytesLib == <<108>>
Contents == {BytesHi, BytesEmpty}

Absent == [kind |-> "absent", bytes |-> <<>>, mtime |-> 0]
Dir == [kind |-> "dir", bytes |-> <<>>, mtime |-> 0]
Denied == [kind |-> "denied", bytes |-> <<>>, mtime |-> 0]
File(b, m) == [kind |-> "file", bytes |-> b, mtime |-> m]

\* Packages: "p" can be downloaded, "q" does not exist in the registry.
NoPkg == ""
GoodPkg == "p"
MissingPkg == "q"
Pkgs == {GoodPkg, MissingPkg}
PkgDir(spec) == CacheDir \o <<spec>>

VARIABLES
    doc,        \* the FileIds the compiled document makes the engine request
    world,      \* TRUE while compile() owns a SystemWorld
    failure,    \* the WorldCreationError of the last compile(), or ""
    fs,         \* node at MainPath, the file other processes edit
    cached,     \* packages present in the package cache directory
    pass,       \* number of compile() calls started
    slots,      \* SystemWorld::slots of the current world: FileId -> FileSlot
    holder,     \* thread holding the slots mutex, or NoThread
    pc,         \* position of each thread inside World::source / World::file
    call,       \* arguments of each thread's call: [id, kind]
    result,     \* get_or_init's local `result` (Option) of each thread
    ret,        \* value the call returns (Option) of each thread
    loads,      \* per cell: invocations of the load closure in this world
    derives,    \* per cell: invocations of the derive closure f in this world
    diskReads,  \* per cell: paths handed to read_from_disk in this world
    first,      \* per cell: the value its first access in this world returned
    dirty,      \* the file at MainPath was changed since this world was created
    lastPass,   \* what World::file(MainId) returned in the previous pass
    prepares,   \* per cell: calls of prepare_package in this world
    downloads,  \* per package: downloads started by this world
    \* the derive closure of FileSlot::source, applied to a cell and a read
    scell,      \* SlotCell<Source>::data (Option of a FileResult<Source>)
    sread,      \* the result of load() that get_or_init hands to f
    sold,       \* scell as it was before the read was derived
    snext,      \* the next Source object to be allocated
    sdone,      \* the read has been derived
    \* World::today
    clock,      \* the wall clock: hours (UTC) since the start of day 0
    now,        \* SystemWorld::now, a OnceLock<DateTime<Local>> (Option)
    tpc,        \* position of each thread inside World::today
    targ,       \* the offset argument of each thread's World::today call
    tret,       \* what each thread's World::today call returns (Option)
    captures,   \* calls of chrono::Local::now made for this world
    dates,      \* per offset: the first value World::today returned for it
    \* the font catalog
    ffs,        \* the font files: path -> content, other processes rewrite them
    fphase,     \* "none", "faces", "embedded", "ready" or "panic"
    faces,      \* db.faces(): the faces found by load_fonts_dir
    fpos,       \* the next face of the loop in search / in add_embedded
    book,       \* FontSearcher::book, later SystemWorld::book
    fonts,      \* FontSearcher::fonts, later SystemWorld::fonts
    freads,     \* per handle: fs::read calls made by FontSlot::get
    ffirst,     \* per handle: the first value FontSlot::get returned
    fret,       \* the handle and value of the last World::font call (Option)
    forder,     \* the order in which read_dir yields the font files
    fprev,      \* the files and the slots of the first catalog built (Option)
    fpaths,     \* font_paths: the directories in the order given, each the
                \* set of its font files
    \* one compile() after the other
    cparams,    \* CompileParams: input and output
    cfs,        \* the directory of the entry file and the entry file
    cpc,        \* position inside compile(): "idle", "input", "root", "world",
                \* "compiled"
    ccanon,     \* the canonicalized input (Option)
    cworld,     \* the SystemWorld: root and main (Option)
    cfile,      \* what the first World::file(main) of the world returned (Option)
    cdocument,  \* what typst::compile returned (Option)
    cout,       \* the files written at the output path(s)
    cresult,    \* what the last compile() returned (Option)
    cprev,      \* result and date of the compile() before, and whether it
                \* had such a predecessor itself, if the files have not
                \* changed since it was called (Option)
    cdirty,     \* the files changed since the running compile() was called
    \* set_permission
    pin,        \* the input path as given
    pout,       \* the output path as given
    pfs,        \* the files: name -> content
    pfs0,       \* the files as they were when set_permission was called
    ppc,        \* position inside set_permission: "check", "read", "write",
                \* "done"
    popened,    \* the files qpdf has opened for reading
    presult,    \* what set_permission returned (Option)
    \* update_metadata
    mdoc,       \* the PDF file at the path
    mdoc0,      \* the PDF file as it was when update_metadata was called
    mmeta,      \* the PdfMetadata given
    mpc,        \* "call" or "done"
    mresult,    \* what update_metadata returned (Option)
    \* watch
    wevent,     \* the event the watcher callback was last called with (Option)
    wevents,    \* events delivered so far
    wpc,        \* position inside the callback: "idle", "called", "compile",
                \* "notify"
    wcompiles,  \* compile() calls made for wevent
    wnotifies,  \* changed.notify_one() calls made for wevent
    wresult,    \* what the last compile() of the callback returned (Option)
    wpermit,    \* the permit of the Notify `changed`
    hpc,        \* position of the websocket handler: "await" or "send"
    wrefresh,   \* "refresh" messages sent to the client
    \* watch(), all its tasks
    vmain,      \* position of watch(): "initial", "spawn", "stdin",
                \* "watcher", "select", "shutdown", "remove", "returned"
    vinit,      \* what the initial compile() returned: "none", "ok", "err"
    vret,       \* what watch() returned: "none", "ok", or the error
    vctrlc,     \* the ctrl_c task: "none", "wait", "signalled", "done"
    vjob,       \* positions of the stdin task and of the watcher callback
    vres,       \* per job: what its last compile() returned and was logged
    vlines,     \* lines of stdin sent through the channel and not received
    vclosed,    \* the thread reading stdin has ended, the sender is dropped
    vwatch,     \* the watcher: "none", "watching", "unwatched", "dropped"
    vpermit,    \* the permit of the Notify `changed`
    vh,         \* per client: position of its handler task
    vwaiters,   \* the handlers waiting on `changed`, in the order they came
    vowed,      \* clients connected when a recompilation ended and not sent
                \* "refresh" since
    vout,       \* the output file: "absent", "complete", or "partial"
                \* while a write is going on
    vserved     \* what the last GET /target.pdf read of the output file

sourceVars == <<scell, sread, sold, snext, sdone>>
clockVars == <<clock, now, tpc, targ, tret, captures, dates>>
fontVars == <<ffs, fphase, faces, fpos, book, fonts, freads, ffirst, fret,
             forder, fprev, fpaths>>
compileVars == <<cparams, cfs, cpc, ccanon, cworld, cfile, cdocument, cout,
                 cresult, cprev, cdirty>>
permVars == <<pin, pout, pfs, pfs0, ppc, popened, presult>>
metaVars == <<mdoc, mdoc0, mmeta, mpc, mresult>>
watchVars == <<wevent, wevents, wpc, wcompiles, wnotifies, wresult, wpermit, hpc,
               wrefresh>>
serveVars == <<vmain, vinit, vret, vctrlc, vjob, vres, vlines, vclosed, vwatch,
               vpermit, vh, vwaiters, vowed, vout, vserved>>
toolVars == <<permVars, metaVars, watchVars, serveVars>>
vars == <<doc, world, failure, fs, cached, pass, slots, holder, pc, call, result,
          ret, loads, derives, diskReads, first, dirty, lastPass, prepares,
          downloads, sourceVars, clockVars, fontVars, compileVars, toolVars>>

\* The node at an absolute path, given the node at MainPath and the cache.
NodeAt(f, c, path) ==
    IF path = MainPath THEN f
    ELSE IF path = ProjectRoot \/ path = CacheDir THEN Dir
    ELSE IF path = LockedPath THEN Denied
    ELSE IF path = SecretPath THEN File(BytesSecret, 0)
    ELSE IF path = BadPath THEN File(BytesBad, 0)
    ELSE IF path = BomPath THEN File(BytesBom, 0)
    ELSE IF path = Bom2Path THEN File(BytesBom2, 0)
    ELSE IF path = BomBadPath THEN File(BytesBomBad, 0)
    ELSE IF path = PkgDir(GoodPkg) /\ GoodPkg \in c THEN Dir
    ELSE IF path = PkgDir(GoodPkg) \o <<"a">> /\ GoodPkg \in c THEN File(BytesLib, 0)
    ELSE Absent

\* ----------------------------------------------------------- virtual paths
Pop(s) == IF s = <<>> THEN s ELSE SubSeq(s, 1, Len(s) - 1)

\* VirtualPath::new: lexical normalisation; ".." only survives in front.
RECURSIVE VPathNewFrom(_, _)
VPathNewFrom(out, rest) ==
    IF rest = <<>> THEN out
    ELSE LET c == Head(rest) IN
         IF c = "."
         THEN VPathNewFrom(out, Tail(rest))
         ELSE IF c = ".." /\ out # <<>> /\ out[Len(out)] # ".."
         THEN VPathNewFrom(Pop(out), Tail(rest))
         ELSE VPathNewFrom(Append(out, c), Tail(rest))
VPathNew(raw) == VPathNewFrom(<<>>, raw)

FileId(pkg, raw) == [pkg |-> pkg, vpath |-> VPathNew(raw)]

\* Variant of ResolveFrom that never denies: ".." just pops.
RECURSIVE ResolveFromUnchecked(_, _)
ResolveFromUnchecked(out, rest) ==
    IF rest = <<>> THEN Some(out)
    ELSE IF Head(rest) = ".."
    THEN ResolveFromUnchecked(Pop(out), Tail(rest))
    ELSE ResolveFromUnchecked(Append(out, Head(rest)), Tail(rest))
ResolveUnchecked(vpath, root) == ResolveFromUnchecked(root, vpath)

\* VirtualPath::resolve as used by system_path: pop on "..", None as soon as
\* the path gets shorter than the root.
RECURSIVE ResolveFrom(_, _, _)
ResolveFrom(out, rest, rootLen) ==
    IF rest = <<>> THEN Some(out)
    ELSE IF Head(rest) = ".."
    THEN IF Len(Pop(out)) < rootLen
         THEN None
         ELSE ResolveFrom(Pop(out), Tail(rest), rootLen)
    ELSE ResolveFrom(Append(out, Head(rest)), Tail(rest), rootLen)
Resolve(vpath, root) == ResolveFrom(root, vpath, Len(root))

STDIN_ID == [pkg |-> NoPkg, vpath |-> <<"<stdin>">>]
StdinBytes == <<>>

MainId == FileId(NoPkg, <<"a">>)
MainAliasId == FileId(NoPkg, <<"d", "..", ".", "a">>)
LockedId == FileId(NoPkg, <<"k">>)
EscId == FileId(NoPkg, <<"d", "..", "..", "s">>)
PkgFileId == FileId(GoodPkg, <<"a">>)
PkgEscId == FileId(GoodPkg, <<"..", "..", "s">>)
MissingPkgId == FileId(MissingPkg, <<"a">>)
BadId == FileId(NoPkg, <<"b">>)
BomId == FileId(NoPkg, <<"m">>)
Bom2Id == FileId(NoPkg, <<"n">>)
BomBadId == FileId(NoPkg, <<"o">>)

\* The documents compiled: each is the set of FileIds its imports and reads
\* make the engine request.
Docs == { {MainId}, {LockedId, EscId}, {PkgFileId, PkgEscId},
          {PkgFileId, MissingPkgId}, {BadId, BomId}, {Bom2Id, BomBadId} }
Ids == UNION Docs
Kinds == {"source", "file"}
Cells == Ids \X Kinds

\* ------------------------------------------------------- reading a FileId
\* FileError::from_io(e, path): the error built from the OS error kind and
\* the path handed over by read_from_disk.
FromIo(kind, path) ==
    IF kind = "NotFound" THEN Err("NotFound", path, "") ELSE Err("Io", path, "")

\* Variant of read_from_disk without the is_dir test: fs::read of a
\* directory fails with an OS error.
read_from_disk_NoDirTest(f, c, path) ==
    LET node == NodeAt(f, c, path) IN
    IF node.kind = "absent" THEN FromIo("NotFound", path)
    ELSE IF node.kind = "dir" THEN FromIo("IsADirectory", path)
    ELSE IF node.kind = "denied" THEN FromIo("PermissionDenied", path)
    ELSE Ok(node.bytes)

\* read_from_disk: fs::metadata, then is_dir, then fs::read.
read_from_disk(f, c, path) ==
    LET node == NodeAt(f, c, path) IN
    IF node.kind = "absent" THEN FromIo("NotFound", path)
    ELSE IF node.kind = "dir" THEN Err("IsDirectory", <<>>, "")
    ELSE IF node.kind = "denied" THEN FromIo("PermissionDenied", path)
    ELSE Ok(node.bytes)

\* Variant of prepare_package that does not look into the cache first.
prepare_package_NoCacheTest(spec, c, dl) ==
    IF spec = GoodPkg /\ dl
    THEN [dir |-> Some(PkgDir(spec)), cached |-> c \cup {spec}, downloaded |-> TRUE]
    ELSE [dir |-> None, cached |-> c, downloaded |-> TRUE]

\* PackageStorage::prepare_package as system_path uses it: the directory of
\* a cached package, else one download that succeeds (dl) or fails.
prepare_package(spec, c, dl) ==
    IF spec \in c
    THEN [dir |-> Some(PkgDir(spec)), cached |-> c, downloaded |-> FALSE]
    ELSE IF spec = GoodPkg /\ dl
    THEN [dir |-> Some(PkgDir(spec)), cached |-> c \cup {spec}, downloaded |-> TRUE]
    ELSE [dir |-> None, cached |-> c, downloaded |-> TRUE]

\* Variant of system_path that ignores the package specification.
system_path_ProjectRootOnly(project_root, id, c, dl) ==
    [path |-> Resolve(id.vpath, project_root),
     err |-> Err("AccessDenied", <<>>, ""),
     cached |-> c,
     prepared |-> <<>>,
     downloaded |-> FALSE]

\* system_path: the root is the package directory for a package id, else the
\* project root; the virtual path is joined onto it, escaping is denied.
system_path(project_root, id, c, dl) ==
    LET prep == IF id.pkg # NoPkg
                THEN prepare_package(id.pkg, c, dl)
                ELSE [dir |-> Some(project_root), cached |-> c, downloaded |-> FALSE]
        path == IF IsSome(prep.dir) THEN Resolve(id.vpath, Unwrap(prep.dir)) ELSE None
    IN [path |-> path,
        err |-> IF ~IsSome(prep.dir) THEN Err("Package", <<>>, id.pkg)
                ELSE Err("AccessDenied", <<>>, ""),
        cached |-> prep.cached,
        prepared |-> IF id.pkg # NoPkg THEN <<id.pkg>> ELSE <<>>,
        downloaded |-> prep.downloaded]

\* Variant of read that, when system_path fails, reads the virtual path under
\* the project root instead.
read_FallsBackToRoot(id, project_root, f, c, dl) ==
    LET sp == system_path(project_root, id, c, dl)
        path == IF IsSome(sp.path) THEN Unwrap(sp.path) ELSE project_root \o id.vpath
    IN [result |-> read_from_disk(f, sp.cached, path),
        cached |-> sp.cached, reads |-> {path},
        prepared |-> sp.prepared, downloaded |-> sp.downloaded]

\* read: stdin for STDIN_ID, else system_path and then read_from_disk.
read(id, project_root, f, c, dl) ==
    IF id = STDIN_ID
    THEN [result |-> Ok(StdinBytes), cached |-> c, reads |-> {},
          prepared |-> <<>>, downloaded |-> FALSE]
    ELSE LET sp == system_path(project_root, id, c, dl) IN
         IF IsSome(sp.path)
         THEN [result |-> read_from_disk(f, sp.cached, Unwrap(sp.path)),
               cached |-> sp.cached, reads |-> {Unwrap(sp.path)},
               prepared |-> sp.prepared, downloaded |-> sp.downloaded]
         ELSE [result |-> sp.err, cached |-> sp.cached, reads |-> {},
               prepared |-> sp.prepared, downloaded |-> sp.downloaded]

\* ---------------------------------------------------------------- decoding
IsCont(b) == b >= 128 /\ b <= 191

\* std::str::from_utf8: well-formed UTF-8 (no overlong forms, no surrogates).
RECURSIVE Utf8Valid(_)
Utf8Valid(b) ==
    IF b = <<>> THEN TRUE
    ELSE LET h == Head(b)
             n == Len(b) IN
         IF h < 128 THEN Utf8Valid(Tail(b))
         ELSE IF h >= 194 /\ h <= 223
         THEN n >= 2 /\ IsCont(b[2]) /\ Utf8Valid(SubSeq(b, 3, n))
         ELSE IF h >= 224 /\ h <= 239
         THEN /\ n >= 3 /\ IsCont(b[2]) /\ IsCont(b[3])
              /\ (h = 224 => b[2] >= 160)
              /\ (h = 237 => b[2] <= 159)
              /\ Utf8Valid(SubSeq(b, 4, n))
         ELSE IF h >= 240 /\ h <= 244
         THEN /\ n >= 4 /\ IsCont(b[2]) /\ IsCont(b[3]) /\ IsCont(b[4])
              /\ (h = 240 => b[2] >= 144)
              /\ (h = 244 => b[2] <= 143)
              /\ Utf8Valid(SubSeq(b, 5, n))
         ELSE FALSE

\* Variant of decode_utf8 that decodes lossily: bytes that are not ASCII are
\* dropped instead of failing.
decode_utf8_Lossy(buf) ==
    LET rest == IF Len(buf) >= 3 /\ SubSeq(buf, 1, 3) = Bom
                THEN SubSeq(buf, 4, Len(buf)) ELSE buf
        Ascii(b) == b < 128
    IN Ok(SelectSeq(rest, Ascii))

\* decode_utf8: strip one leading byte-order mark, then validate.
decode_utf8(buf) ==
    LET rest == IF Len(buf) >= 3 /\ SubSeq(buf, 1, 3) = Bom
                THEN SubSeq(buf, 4, Len(buf)) ELSE buf
    IN IF Utf8Valid(rest) THEN Ok(rest) ELSE Err("InvalidUtf8", <<>>, "")

\* The derive closure f of FileSlot::source and FileSlot::file, applied to
\* the bytes read (prev only selects Source::replace or Source::new; both
\* give a Source with the decoded text).
DeriveF(kind, data, prev) ==
    IF kind = "source" THEN decode_utf8(data) ELSE Ok(data)

\* ------------------------------------------------------------- fingerprint
RECURSIVE SumBytes(_)
SumBytes(b) == IF b = <<>> THEN 0 ELSE Head(b) + SumBytes(Tail(b))

ErrCode(kind) ==
    CASE kind = "NotFound" -> 1
      [] kind = "IsDirectory" -> 2
      [] kind = "AccessDenied" -> 3
      [] kind = "Package" -> 4
      [] OTHER -> 5

\* typst_utils::hash128(&result): a function of the read result alone.
hash128(r) ==
    IF r.ok THEN (SumBytes(r.val) + Len(r.val)) % HashRange
    ELSE (ErrCode(r.err) + Len(r.path)) % HashRange

\* ------------------------------------------------------------------ cells
\* SlotCell::new
SlotCellNew == [data |-> None, fingerprint |-> 0, accessed |-> FALSE]
\* FileSlot::new
FileSlotNew(id) == [id |-> id, source |-> SlotCellNew, file |-> SlotCellNew]

EmptyMap == [i \in {} |-> FileSlotNew(MainId)]
NoCall == [id |-> MainId, kind |-> "file"]
CellOf(t) == slots[call[t].id][call[t].kind]
Key(t) == <<call[t].id, call[t].kind>>
\* Variant of SetCell in which the two views of a slot share one cell.
SetCellShared(t, cell) ==
    [slots EXCEPT ![call[t].id] = [@ EXCEPT !.source = cell, !.file = cell]]

SetCell(t, cell) ==
    [slots EXCEPT ![call[t].id] = [@ EXCEPT ![call[t].kind] = cell]]

\* ------------------------------------------------------------ Source
\* A Source: the object (its allocation), the FileId it was made for and its
\* text. A FileResult<Source> carries a Source in both of its variants.
Source(obj, id, text) == [obj |-> obj, id |-> id, text |-> text]
NoSource == Source(0, STDIN_ID, <<>>)
SOk(src) == [ok |-> TRUE, val |-> src, err |-> ""]
SErr(kind) == [ok |-> FALSE, val |-> NoSource, err |-> kind]

\* Source::new(id, text): a new object.
SourceNew(obj, id, text) == Source(obj, id, text)
\* Source::replace(text): the same object with the new text.
SourceReplace(src, text) == [src EXCEPT !.text = text]

\* Variant of SourceF that builds a new Source whatever prev is.
SourceF_AlwaysNew(id, data, prev, fresh) ==
    LET text == decode_utf8(data) IN
    IF ~text.ok THEN SErr(text.err)
    ELSE SOk(SourceNew(fresh, id, text.val))

\* The closure f of FileSlot::source: decode, then replace the text of the
\* previous Source or make a new one.
SourceF(id, data, prev, fresh) ==
    LET text == decode_utf8(data) IN
    IF ~text.ok THEN SErr(text.err)
    ELSE IF IsSome(prev)
    THEN SOk(SourceReplace(Unwrap(prev), text.val))
    ELSE SOk(SourceNew(fresh, id, text.val))

\* The values of the cell and of the read the closure is applied to.
SourceTexts == {BytesHi, BytesEmpty, BytesLib, <<104>>}
SourceCells ==
    {None, Some(SErr("NotFound")), Some(SErr("InvalidUtf8"))}
        \cup {Some(SOk(Source(1, MainId, x))) : x \in SourceTexts}
SourceReads ==
    {Ok(b) : b \in {BytesHi, BytesEmpty, BytesBom, BytesBad, BytesBom2,
                    BytesBomBad, BytesLib}}
        \cup {Err("NotFound", MainPath, ""), Err("IsDirectory", <<>>, "")}

\* ------------------------------------------------------------------ fonts
\* The files of the font directory, in the order read_dir yields them at
\* the start.
FontPaths == <<"f1", "f2">>
\* A font file is the sequence of its faces, each named by its family;
\* fontdb lists every face, typst cannot read the metadata of face "H".
NoFile == [present |-> FALSE, faces |-> <<>>]
FontFile(fs_) == [present |-> TRUE, faces |-> fs_]
\* What the files hold in the course of time: "f1" a single font, A or C;
\* "f2" a collection of H and B, or of D and B.
FontContents(path) ==
    IF path = "f1"
    THEN {NoFile, FontFile(<<"A">>), FontFile(<<"C">>)}
    ELSE {NoFile, FontFile(<<"H", "B">>), FontFile(<<"D", "B">>)}
\* The fonts of the payloads compiled into the binary, as Font::iter and
\* enumerate give them: the index among the fonts of their payload.
EmbeddedFonts == <<[i |-> 0, family |-> "E"], [i |-> 0, family |-> "F"]>>
\* PathBuf::new(), the path of an embedded slot.
EmptyPath == ""
Handles == 1..(2 * Len(FontPaths) + Len(EmbeddedFonts))

FontInfo(family) == [family |-> family]
Font(family, origin) == [info |-> FontInfo(family), origin |-> origin]

\* FontInfo::new(data, index): the metadata of face `index` of the data.
FontInfoNew(content, index) ==
    IF index + 1 > Len(content.faces) \/ content.faces[index + 1] = "H"
    THEN None
    ELSE Some(FontInfo(content.faces[index + 1]))
\* Font::new(data, index): the font of face `index` of the data.
FontNew(content, index, origin) ==
    IF index + 1 > Len(content.faces) \/ content.faces[index + 1] = "H"
    THEN None
    ELSE Some(Font(content.faces[index + 1], origin))

\* The orders in which read_dir can yield the files of the font directory.
Orders ==
    {o \in [1..Len(FontPaths) -> {FontPaths[n] : n \in 1..Len(FontPaths)}] :
        \A i, j \in 1..Len(FontPaths) : o[i] = o[j] => i = j}

\* Database::load_fonts_dir over the font paths: one face per face of every
\* file present, the files in the order read_dir yields them.
RECURSIVE LoadFontsDir(_, _, _)
LoadFontsDir(f, order, n) ==
    IF n > Len(order) THEN <<>>
    ELSE [k \in 1..Len(f[order[n]].faces) |->
             [path |-> order[n], index |-> k - 1]]
         \o LoadFontsDir(f, order, n + 1)

\* The OnceCell of a FontSlot: None while empty, else Some(Option<Font>).
FontSlot(path, index, font) == [path |-> path, index |-> index, font |-> font]

FontInit ==
    /\ ffs = [q \in {FontPaths[n] : n \in 1..Len(FontPaths)} |->
                IF q = "f1" THEN FontFile(<<"A">>) ELSE FontFile(<<"H", "B">>)]
    /\ fphase = "none"
    /\ faces = <<>>
    /\ fpos = 1
    /\ book = <<>>
    /\ fonts = <<>>
    /\ freads = [h \in Handles |-> 0]
    /\ ffirst = [h \in Handles |-> None]
    /\ fret = None
    /\ forder = FontPaths
    /\ fprev = None
    /\ fpaths = <<{FontPaths[n] : n \in 1..Len(FontPaths)}>>

\* ------------------------------------------------------------ compile()
\* More paths: the filesystem root, the working directory, a symbolic link
\* to the entry file, a file in a directory that does not exist, and a file
\* in a directory that may not be searched.
FsRoot == <<>>
Cwd == <<"w">>
CurDir == <<".">>
LinkPath == <<"w", "l">>
GonePath == <<"x", "a">>
ClosedPath == <<"z", "a">>

\* Entry files: one page, one page showing today's date, two pages.
BytesToday == <<116>>
BytesTwo == <<50>>
EntryNodes == {File(BytesHi, 0), File(BytesToday, 0), File(BytesTwo, 0),
               Dir, Absent}

\* Output paths by their extension (bytes) and whether the path holds one
\* of the page templates.
ExtPdf == <<112, 100, 102>>
ExtPng == <<112, 110, 103>>
Output(ext, indexable) == [ext |-> ext, indexable |-> indexable]
PdfOut == Output(Some(ExtPdf), FALSE)
\* The parameters compile() is called with. For the entry file every
\* output: o.pdf, o.png, o.PNG, o-{n}.png, o.jpg and o; for the PDF output
\* every input.
Params ==
    {[input |-> MainPath, output |-> o] :
        o \in {PdfOut, Output(Some(ExtPng), FALSE), Output(Some(<<80, 78, 71>>), FALSE),
               Output(Some(ExtPng), TRUE), Output(Some(<<106, 112, 103>>), FALSE),
               Output(None, FALSE)}}
      \cup {[input |-> i, output |-> PdfOut] :
               i \in {MainPath, LinkPath, GonePath, ClosedPath, FsRoot}}

\* u8::to_ascii_lowercase and OsStr::eq_ignore_ascii_case.
ToAsciiLowercase(b) == IF b >= 65 /\ b <= 90 THEN b + 32 ELSE b
EqIgnoreAsciiCase(a, b) ==
    /\ Len(a) = Len(b)
    /\ \A i \in 1..Len(a) : ToAsciiLowercase(a[i]) = ToAsciiLowercase(b[i])

\* fs::canonicalize: the path with its links resolved; every component has
\* to exist and to be reachable.
COk(path) == [ok |-> TRUE, path |-> path, kind |-> ""]
CErr(kind) == [ok |-> FALSE, path |-> <<>>, kind |-> kind]
Canonicalize(f, path) ==
    IF path = FsRoot THEN COk(FsRoot)
    ELSE IF path = Cwd \/ path = CurDir THEN COk(Cwd)
    ELSE IF path = ProjectRoot
    THEN IF f.dir THEN COk(ProjectRoot) ELSE CErr("NotFound")
    ELSE IF path = MainPath \/ path = LinkPath
    THEN IF f.dir /\ f.entry.kind # "absent"
         THEN COk(MainPath) ELSE CErr("NotFound")
    ELSE IF path = ClosedPath THEN CErr("PermissionDenied")
    ELSE CErr("NotFound")

\* Path::parent: None for the filesystem root.
Parent(path) == IF path = <<>> THEN None ELSE Some(Pop(path))
\* VirtualPath::within_root: Path::strip_prefix, then VirtualPath::new.
WithinRoot(path, root) ==
    IF Len(path) >= Len(root) /\ SubSeq(path, 1, Len(root)) = root
    THEN Some(VPathNew(SubSeq(path, Len(root) + 1, Len(path))))
    ELSE None

\* What compile() returns: Ok, a WorldCreationError turned into a string,
\* or the diagnostics; "Panic" when it does not return.
ROk == [ok |-> TRUE, type |-> "", kind |-> ""]
RErr(type, kind) == [ok |-> FALSE, type |-> type, kind |-> kind]
WorldCreationErrors == {"InputNotFound", "InputOutsideRoot", "RootNotFound", "Io"}

\* The document typst::compile makes of the text of the main file.
Pages(text) == IF text = BytesTwo THEN 2 ELSE 1
UsesToday(text) == text = BytesToday
DocOk(text, date) ==
    [ok |-> TRUE, pages |-> Pages(text), text |-> text, date |-> date, err |-> ""]
DocErr(kind) ==
    [ok |-> FALSE, pages |-> 0, text |-> <<>>, date |-> None, err |-> kind]

\* The output files: key 0 is the output path itself, key n the path that
\* output_template::format makes for page n.
OutKeys == 0..2
NoOut == [format |-> "none", text |-> <<>>, date |-> None, page |-> 0]
Pdf(document) ==
    [format |-> "pdf", text |-> document.text, date |-> document.date, page |-> 0]
Png(document, n) ==
    [format |-> "png", text |-> document.text, date |-> document.date, page |-> n]

CompileInit(params) ==
    /\ cparams = params
    /\ cfs = [dir |-> TRUE, entry |-> File(BytesHi, 0)]
    /\ cpc = "idle"
    /\ ccanon = None
    /\ cworld = None
    /\ cfile = None
    /\ cdocument = None
    /\ cout = [k \in OutKeys |-> NoOut]
    /\ cresult = None
    /\ cprev = None
    /\ cdirty = FALSE

CompileRest == CompileInit([input |-> MainPath, output |-> PdfOut])

\* ------------------------------------------------------- set_permission
\* Paths as PathBuf compares them, component by component: a file, the same
\* file spelled with a leading ".", a symbolic link to it, and another file.
PathA == <<"a.pdf">>
PathB == <<"b.pdf">>
PermPaths == {PathA, <<".", "a.pdf">>, <<"l.pdf">>, PathB}
\* The file a path designates.
Designates(path) == IF path = PathB THEN "b" ELSE "a"
PdfFiles == {"a", "b"}

\* What a file holds: nothing (no file), a PDF, a PDF encrypted by qpdf,
\* something qpdf cannot read, and what is left of a file that was
\* truncated while it was read.
NoPdf == "absent"
PlainPdf == "pdf"
EncryptedPdf == "encrypted"
NotPdf == "garbage"
TruncatedPdf == "truncated"

PermOk == [ok |-> TRUE, err |-> ""]
PermErr(e) == [ok |-> FALSE, err |-> e]

PermInit(input, output, files) ==
    /\ pin = input
    /\ pout = output
    /\ pfs = files
    /\ pfs0 = files
    /\ ppc = "check"
    /\ popened = {}
    /\ presult = None
PermRest == PermInit(PathA, PathB, [f \in PdfFiles |-> IF f = "a" THEN PlainPdf ELSE NoPdf])

\* ------------------------------------------------------- update_metadata
\* Text is a sequence of pieces, a dictionary a function from keys to text.
Text(piece) == <<piece>>
EmptyDict == [k \in {} |-> <<>>]
\* Vec<String>::join(", ").
RECURSIVE Join(_)
Join(words) ==
    IF words = <<>> THEN <<>>
    ELSE IF Len(words) = 1 THEN <<words[1]>>
    ELSE <<words[1], ", ">> \o Join(Tail(words))

\* The pdfuaid:part property of an XMP packet: absent, written as the element
\* <pdfuaid:part>text</pdfuaid:part>, or as the attribute
\* pdfuaid:part="text" of rdf:Description.
NoPart == [form |-> "none", text |-> <<>>]
ElementPart(text) == [form |-> "element", text |-> text]
AttributePart(text) == [form |-> "attribute", text |-> text]
Packet(props, part) == [props |-> props, part |-> part]
NoPacket == Packet(EmptyDict, NoPart)

\* str::trim and str::parse::<i32> on small texts.
Digits == <<"0", "1", "2", "3", "4", "5", "6", "7", "8", "9">>
RECURSIVE TrimStart(_)
TrimStart(t) ==
    IF t # <<>> /\ Head(t) = " " THEN TrimStart(Tail(t)) ELSE t
RECURSIVE TrimEnd(_)
TrimEnd(t) ==
    IF t # <<>> /\ t[Len(t)] = " " THEN TrimEnd(SubSeq(t, 1, Len(t) - 1)) ELSE t
Trim(t) == TrimEnd(TrimStart(t))
RECURSIVE ParseDigits(_, _)
ParseDigits(t, acc) ==
    IF t = <<>> THEN Some(acc)
    ELSE IF \E d \in 1..Len(Digits) : Digits[d] = Head(t)
    THEN ParseDigits(Tail(t),
                     10 * acc + (CHOOSE d \in 1..Len(Digits) : Digits[d] = Head(t)) - 1)
    ELSE None
ParseI32(t) == IF t = <<>> THEN None ELSE ParseDigits(t, 0)
\* The decimal digits xmp-writer writes for a part number.
RECURSIVE FormatI32(_)
FormatI32(n) ==
    IF n < 10 THEN <<Digits[n + 1]>>
    ELSE FormatI32(n \div 10) \o <<Digits[(n % 10) + 1]>>

\* A PDF: whether lopdf can load it, the Info dictionary the trailer points
\* to (Option), what the Metadata entry of the catalog is ("none", "stream"
\* for a reference to a stream, "other" for anything else), and the keys of
\* the dictionary and the content of that stream.
PdfDoc(loads_, info, metadata, keys, content) ==
    [loads |-> loads_, info |-> info, metadata |-> metadata, keys |-> keys,
     content |-> content]

\* extract_pdfua_part: the text between <pdfuaid:part> and </pdfuaid:part>
\* of the metadata stream, trimmed and parsed.
extract_pdfua_part(d) ==
    IF d.metadata = "stream" /\ d.content.part.form = "element"
    THEN ParseI32(Trim(d.content.part.text))
    ELSE None

\* generate_xmp: the packet made of the metadata, the date and the part.
generate_xmp(metadata, pdfua_part, date) ==
    LET always == [k \in {"dc:title", "dc:description", "dc:creator", "dc:language",
                          "xmpRights:Marked", "dc:rights", "xmp:CreatorTool",
                          "xmp:CreateDate", "xmp:ModifyDate"} |->
                     CASE k = "dc:title" -> Text(metadata.title)
                       [] k = "dc:description" -> Text(metadata.subject)
                       [] k = "dc:creator" -> Text(metadata.author)
                       [] k = "dc:language" -> Text(metadata.language)
                       [] k = "xmpRights:Marked" ->
                            Text(IF metadata.copyright_status THEN "True" ELSE "False")
                       [] k = "dc:rights" -> Text(metadata.copyright_notice)
                       [] k = "xmp:CreatorTool" -> Text(metadata.application)
                       [] OTHER -> date]
        keywords == [k \in {"dc:subject", "pdf:Keywords"} |->
                       IF k = "dc:subject" THEN metadata.keywords
                       ELSE Join(metadata.keywords)]
    IN Packet(IF metadata.keywords # <<>> THEN always @@ keywords ELSE always,
              IF IsSome(pdfua_part) THEN ElementPart(FormatI32(Unwrap(pdfua_part)))
              ELSE NoPart)

\* update_xmp_stream: the content of an existing metadata stream is
\* replaced, its Length set and its Filter removed; else a new stream is
\* made and the catalog points to it.
update_xmp_stream(d, xmp) ==
    IF d.metadata = "stream"
    THEN [d EXCEPT !.content = xmp, !.keys = (@ \cup {"Length"}) \ {"Filter"}]
    ELSE [d EXCEPT !.metadata = "stream", !.content = xmp,
                   !.keys = {"Type", "Subtype", "Length"}]

\* update_info_dict: a new dictionary with the standard entries, then the
\* custom properties set over them; the trailer points to it.
update_info_dict(d, metadata, date) ==
    LET standard == [k \in {"Title", "Subject", "Author", "Producer", "Creator",
                            "CreationDate", "ModDate", "Keywords"} |->
                       CASE k = "Title" -> Text(metadata.title)
                         [] k = "Subject" -> Text(metadata.subject)
                         [] k = "Author" -> Text(metadata.author)
                         [] k \in {"Producer", "Creator"} -> Text(metadata.application)
                         [] k = "Keywords" -> Join(metadata.keywords)
                         [] OTHER -> date]
    IN [d EXCEPT !.info = Some(metadata.custom_properties @@ standard)]

\* The inputs: documents with and without Info dictionary and metadata
\* stream, the part number in every form; metadata with and without
\* keywords and custom properties, one of them named like a standard entry.
OldProps == [k \in {"dc:title", "dc:source"} |-> Text("old")]
PdfDocs ==
    LET infos == {None,
                  Some([k \in {"Title"} |-> Text("old")]),
                  Some([k \in {"Title", "Trapped", "robots"} |-> Text("old")])}
        parts == {NoPart, ElementPart(<<"1">>), ElementPart(<<" ", "2", " ">>),
                  ElementPart(<<"1", "0">>), ElementPart(<<"x">>),
                  AttributePart(<<"1">>)}
    IN {PdfDoc(FALSE, None, "none", {}, NoPacket)}
         \cup {PdfDoc(TRUE, i, m, {}, NoPacket) : i \in infos, m \in {"none", "other"}}
         \cup {PdfDoc(TRUE, i, "stream", k, Packet(OldProps, p)) :
                  i \in infos, p \in parts,
                  k \in {{"Type", "Subtype", "Length"},
                         {"Type", "Subtype", "Length", "Filter"}}}
PdfMetadata(keywords, custom_properties) ==
    [title |-> "title", author |-> "author", application |-> "application",
     subject |-> "subject", copyright_status |-> TRUE,
     copyright_notice |-> "notice", keywords |-> keywords, language |-> "en",
     custom_properties |-> custom_properties]
Metadatas ==
    {PdfMetadata(k, c) :
        k \in {<<>>, <<"k">>, <<"k", "l">>},
        c \in {EmptyDict,
               [n \in {"robots"} |-> Text("noindex")],
               [n \in {"robots", "Title"} |-> Text("custom")]}}

MetaInit(d, metadata) ==
    /\ mdoc = d
    /\ mdoc0 = d
    /\ mmeta = metadata
    /\ mpc = "call"
    /\ mresult = None
MetaRest ==
    MetaInit(PdfDoc(TRUE, None, "none", {}, NoPacket), PdfMetadata(<<>>, EmptyDict))

\* ----------------------------------------------------------------- watch
\* Events the watcher delivers before it is stopped.
MaxEvents == 3

Lower == <<"a", "b", "c", "d", "e", "f", "g", "h", "i", "j", "k", "l", "m",
           "n", "o", "p", "q", "r", "s", "t", "u", "v", "w", "x", "y", "z">>
Upper == <<"A", "B", "C", "D", "E", "F", "G", "H", "I", "J", "K", "L", "M",
           "N", "O", "P", "Q", "R", "S", "T", "U", "V", "W", "X", "Y", "Z">>
\* str::to_lowercase on the letters of an extension.
to_lowercase(e) ==
    [i \in 1..Len(e) |->
        IF \E n \in 1..Len(Upper) : Upper[n] = e[i]
        THEN Lower[CHOOSE n \in 1..Len(Upper) : Upper[n] = e[i]]
        ELSE e[i]]

EXTENSIONS ==
    {<<"c", "b", "o", "r">>, <<"c", "s", "v">>, <<"g", "i", "f">>,
     <<"h", "t", "m">>, <<"h", "t", "m", "l">>, <<"j", "p", "e", "g">>,
     <<"j", "p", "g">>, <<"j", "s", "o", "n">>, <<"p", "n", "g">>,
     <<"s", "v", "g">>, <<"t", "o", "m", "l">>, <<"t", "x", "t">>,
     <<"t", "y", "p">>, <<"x", "m", "l">>, <<"y", "a", "m", "l">>,
     <<"y", "m", "l">>}

\* The events of the watcher: the kind, and of every path its extension
\* (Option). The paths lie under the directory of the input, which is what
\* is watched, recursively.
ContentChange == "Modify(Data(Content))"
WatchEvents ==
    LET kinds == {ContentChange, "Modify(Data(Size))", "Modify(Metadata(Any))",
                  "Create(File)"}
        extensions == {Some(<<"t", "y", "p">>), Some(<<"Y", "m", "L">>),
                       Some(<<"p", "d", "f">>), None}
    IN {[kind |-> k, paths |-> <<e>>] : k \in kinds, e \in extensions}
         \cup {[kind |-> k, paths |-> <<e, f>>] :
                  k \in kinds, e \in extensions, f \in extensions}

WatchInit ==
    /\ wevent = None
    /\ wevents = 0
    /\ wpc = "idle"
    /\ wcompiles = 0
    /\ wnotifies = 0
    /\ wresult = None
    /\ wpermit = FALSE
    /\ hpc = "await"
    /\ wrefresh = 0

\* Browser pages that connect to /listen.
NClients == 2
Clients == 1..NClients
\* Lines of stdin that wait in the channel.
MaxLines == 1
\* watch() is called: the listener is bound, nothing else has happened.
ServeInit ==
    /\ vmain = "initial"
    /\ vinit = "none"
    /\ vret = "none"
    /\ vctrlc = "none"
    /\ vjob = [stdin |-> "none", callback |-> "idle"]
    /\ vres = [stdin |-> "none", callback |-> "none"]
    /\ vlines = 0
    /\ vclosed = FALSE
    /\ vwatch = "none"
    /\ vpermit = FALSE
    /\ vh = [c \in Clients |-> "none"]
    /\ vwaiters = <<>>
    /\ vowed = {}
    /\ vout = "absent"
    /\ vserved = "none"
ToolRest == PermRest /\ MetaRest /\ WatchInit /\ ServeInit

\* ------------------------------------------------------------- the date
\* The wall clock when the first compile() starts: 23:00 UTC of day 0.
StartClock == 23
\* The offset of the local time zone from UTC, in hours.
LocalOffset == 1
\* An instant in the local time zone, as chrono::Local::now gives it.
DateTimeLocal(utc) == [utc |-> utc, offset |-> LocalOffset]
\* Duration::try_hours accepts |hours| up to MaxHours (i64::MAX / 3_600_000
\* in chrono); a NaiveDateTime holds hours up to MaxNaive (about 262,000
\* years in chrono): both scaled down, MaxNaive < MaxHours as in chrono.
MaxHours == 1000
MaxNaive == 200
BigOffset == 500
HugeOffset == 2000
\* The offsets World::today is called with: None, or Some(hours).
Offsets == {None, Some(0), Some(BigOffset), Some(HugeOffset)}

TryHours(o) == IF o > MaxHours \/ o < 0 - MaxHours THEN None ELSE Some(o)
\* Datetime::from_ymd of the calendar day an hour count falls in.
Date(hours) == [kind |-> "date", day |-> hours \div 24]
NoDate == [kind |-> "none", day |-> 0]
Panic == [kind |-> "panic", day |-> 0]

\* The body of World::today after the instant is captured: naive_local, or
\* naive_utc plus the offset (the addition panics when it overflows).
Today(instant, offset) ==
    IF offset = None
    THEN Date(instant.utc + instant.offset)
    ELSE LET d == TryHours(Unwrap(offset)) IN
         IF d = None THEN NoDate
         ELSE IF instant.utc + Unwrap(d) > MaxNaive
                 \/ instant.utc + Unwrap(d) < 0 - MaxNaive
         THEN Panic
         ELSE Date(instant.utc + Unwrap(d))

ClockInit ==
    /\ clock = StartClock
    /\ now = None
    /\ tpc = [t \in Threads |-> "idle"]
    /\ targ = [t \in Threads |-> None]
    /\ tret = [t \in Threads |-> None]
    /\ captures = 0
    /\ dates = [o \in Offsets |-> None]

SourceRest ==
    /\ scell = None
    /\ sread = Ok(BytesEmpty)
    /\ sold = None
    /\ snext = 1
    /\ sdone = TRUE

InitFiles(docs) ==
    /\ doc \in docs
    /\ world = FALSE
    /\ failure = ""
    /\ fs = File(BytesHi, 0)
    /\ cached = {}
    /\ pass = 0
    /\ slots = EmptyMap
    /\ holder = NoThread
    /\ pc = [t \in Threads |-> "idle"]
    /\ call = [t \in Threads |-> NoCall]
    /\ result = [t \in Threads |-> None]
    /\ ret = [t \in Threads |-> None]
    /\ loads = [c \in Cells |-> 0]
    /\ derives = [c \in Cells |-> 0]
    /\ diskReads = [c \in Cells |-> {}]
    /\ first = [c \in Cells |-> None]
    /\ dirty = FALSE
    /\ lastPass = None
    /\ prepares = [c \in Cells |-> 0]
    /\ downloads = [p \in Pkgs |-> 0]

InitWith(docs) ==
    /\ InitFiles(docs)
    /\ SourceRest
    /\ ClockInit
    /\ FontInit
    /\ CompileRest
    /\ ToolRest

\* --------------------------------------------------------------- compile()
\* SystemWorld::new as compile() calls it: the entry file must exist; the
\* world starts with an empty slot map.
SystemWorldNew ==
    /\ ~world
    /\ pass < MaxPass
    /\ pass' = pass + 1
    /\ IF fs.kind = "absent"
       THEN /\ failure' = "InputNotFound"
            /\ world' = FALSE
       ELSE /\ failure' = ""
            /\ world' = TRUE
    /\ slots' = EmptyMap
    /\ loads' = [c \in Cells |-> 0]
    /\ derives' = [c \in Cells |-> 0]
    /\ diskReads' = [c \in Cells |-> {}]
    /\ first' = [c \in Cells |-> None]
    /\ prepares' = [c \in Cells |-> 0]
    /\ downloads' = [p \in Pkgs |-> 0]
    /\ now' = None
    /\ captures' = 0
    /\ dates' = [o \in Offsets |-> None]
    /\ dirty' = FALSE
    /\ UNCHANGED <<toolVars, compileVars, fontVars, sourceVars, clock, tpc, targ, tret, doc, fs, cached, holder, pc, call, result, ret, lastPass>>

\* Variant of CompileReturn in which the world outlives compile() and serves
\* the next pass with its slots as they are.
CompileReturnKeepsWorld ==
    /\ world
    /\ \A t \in Threads : pc[t] = "idle" /\ tpc[t] = "idle"
    /\ pass < MaxPass
    /\ pass' = pass + 1
    /\ loads' = [c \in Cells |-> 0]
    /\ derives' = [c \in Cells |-> 0]
    /\ diskReads' = [c \in Cells |-> {}]
    /\ first' = [c \in Cells |-> None]
    /\ prepares' = [c \in Cells |-> 0]
    /\ downloads' = [p \in Pkgs |-> 0]
    /\ dirty' = FALSE
    /\ lastPass' = first[<<MainId, "file">>]
    /\ UNCHANGED <<toolVars, compileVars, fontVars, sourceVars, clockVars, doc, world, failure, fs, cached, slots, holder, pc, call,
                   result, ret>>

\* compile() returns: typst::compile has finished, the world is dropped
\* together with its slots.
CompileReturn ==
    /\ world
    /\ \A t \in Threads : pc[t] = "idle" /\ tpc[t] = "idle"
    /\ world' = FALSE
    /\ slots' = EmptyMap
    /\ loads' = [c \in Cells |-> 0]
    /\ derives' = [c \in Cells |-> 0]
    /\ diskReads' = [c \in Cells |-> {}]
    /\ first' = [c \in Cells |-> None]
    /\ prepares' = [c \in Cells |-> 0]
    /\ downloads' = [p \in Pkgs |-> 0]
    /\ now' = None
    /\ captures' = 0
    /\ dates' = [o \in Offsets |-> None]
    /\ dirty' = FALSE
    /\ lastPass' = first[<<MainId, "file">>]
    /\ UNCHANGED <<toolVars, compileVars, fontVars, sourceVars, clock, tpc, targ, tret, doc, failure, fs, cached, pass, holder, pc, call, result,
                   ret>>

\* ------------------------------------------- World::source and World::file
\* A thread of the engine calls World::source(id) or World::file(id).
Call(t, id, kind) ==
    /\ world
    /\ pc[t] = "idle"
    /\ pc' = [pc EXCEPT ![t] = "lock"]
    /\ call' = [call EXCEPT ![t] = [id |-> id, kind |-> kind]]
    /\ UNCHANGED <<toolVars, compileVars, fontVars, sourceVars, clockVars, prepares, downloads, dirty, lastPass, doc, world, failure, fs, cached, pass,
                   slots, holder, result, ret, loads, derives, diskReads,
                   first>>

\* Variant of Lock that does not wait for the mutex.
LockNoExclusion(t) ==
    /\ pc[t] = "lock"
    /\ holder' = t
    /\ slots' = IF call[t].id \in DOMAIN slots
                THEN slots
                ELSE slots @@ (call[t].id :> FileSlotNew(call[t].id))
    /\ pc' = [pc EXCEPT ![t] = "check"]
    /\ UNCHANGED <<toolVars, compileVars, fontVars, sourceVars, clockVars, prepares, downloads, dirty, lastPass, doc, world, failure, fs, cached, pass,
                   call, result, ret, loads, derives, diskReads, first>>

\* SystemWorld::slot: lock the map, look the slot up or insert a new one.
Lock(t) ==
    /\ pc[t] = "lock"
    /\ holder = NoThread
    /\ holder' = t
    /\ slots' = IF call[t].id \in DOMAIN slots
                THEN slots
                ELSE slots @@ (call[t].id :> FileSlotNew(call[t].id))
    /\ pc' = [pc EXCEPT ![t] = "check"]
    /\ UNCHANGED <<toolVars, compileVars, fontVars, sourceVars, clockVars, prepares, downloads, dirty, lastPass, doc, world, failure, fs, cached, pass,
                   call, result, ret, loads, derives, diskReads, first>>

\* Variant of Check that tests the accessed flag without setting it.
CheckNoFlag(t) ==
    /\ pc[t] = "check"
    /\ LET cell == CellOf(t) IN
       /\ slots' = slots
       /\ IF cell.accessed /\ IsSome(cell.data)
          THEN /\ ret' = [ret EXCEPT ![t] = cell.data]
               /\ pc' = [pc EXCEPT ![t] = "hit"]
          ELSE /\ ret' = ret
               /\ pc' = [pc EXCEPT ![t] = "load"]
    /\ UNCHANGED <<toolVars, compileVars, fontVars, sourceVars, clockVars, prepares, downloads, dirty, lastPass, doc, world, failure, fs, cached, pass,
                   holder, call, result, loads, derives, diskReads, first>>

\* Variant of Check that gives the mutex back before the load.
CheckReleases(t) ==
    /\ pc[t] = "check"
    /\ LET cell == CellOf(t) IN
       /\ slots' = SetCell(t, [cell EXCEPT !.accessed = TRUE])
       /\ IF cell.accessed /\ IsSome(cell.data)
          THEN /\ ret' = [ret EXCEPT ![t] = cell.data]
               /\ pc' = [pc EXCEPT ![t] = "hit"]
               /\ holder' = holder
          ELSE /\ ret' = ret
               /\ pc' = [pc EXCEPT ![t] = "load"]
               /\ holder' = NoThread
    /\ UNCHANGED <<toolVars, compileVars, fontVars, sourceVars, clockVars, prepares, downloads, dirty, lastPass, doc, world, failure, fs, cached, pass,
                   call, result, loads, derives, diskReads, first>>

\* Variant of Check that returns the stored data only when it is a value: a
\* cell that holds an error reads again.
CheckRetriesErrors(t) ==
    /\ pc[t] = "check"
    /\ LET cell == CellOf(t) IN
       /\ slots' = SetCell(t, [cell EXCEPT !.accessed = TRUE])
       /\ IF cell.accessed /\ IsSome(cell.data) /\ Unwrap(cell.data).ok
          THEN /\ ret' = [ret EXCEPT ![t] = cell.data]
               /\ pc' = [pc EXCEPT ![t] = "hit"]
          ELSE /\ ret' = ret
               /\ pc' = [pc EXCEPT ![t] = "load"]
    /\ UNCHANGED <<toolVars, compileVars, fontVars, sourceVars, clockVars, prepares, downloads, dirty, lastPass, doc, world, failure, fs, cached, pass,
                   holder, call, result, loads, derives, diskReads, first>>

\* get_or_init, the accessed test: the flag is set; a cell accessed before
\* that holds data returns it.
Check(t) ==
    /\ pc[t] = "check"
    /\ LET cell == CellOf(t) IN
       /\ slots' = SetCell(t, [cell EXCEPT !.accessed = TRUE])
       /\ IF cell.accessed /\ IsSome(cell.data)
          THEN /\ ret' = [ret EXCEPT ![t] = cell.data]
               /\ pc' = [pc EXCEPT ![t] = "hit"]
          ELSE /\ ret' = ret
               /\ pc' = [pc EXCEPT ![t] = "load"]
    /\ UNCHANGED <<toolVars, compileVars, fontVars, sourceVars, clockVars, prepares, downloads, dirty, lastPass, doc, world, failure, fs, cached, pass,
                   holder, call, result, loads, derives, diskReads, first>>

\* Variant of Load whose read goes through SystemWorld::slot again: the
\* thread asks for the mutex it holds.
LoadThroughSlot(t) ==
    /\ pc[t] = "load"
    /\ pc' = [pc EXCEPT ![t] = "lock"]
    /\ UNCHANGED <<toolVars, compileVars, fontVars, sourceVars, clockVars, prepares, downloads, dirty, lastPass, doc, world, failure, fs, cached, pass,
                   slots, holder, call, result, ret, loads, derives, diskReads,
                   first>>

\* get_or_init, load(): read(id, root, package_storage).
Load(t) ==
    /\ pc[t] = "load"
    /\ \E dl \in BOOLEAN :
         LET r == read(call[t].id, ProjectRoot, fs, cached, dl) IN
         /\ result' = [result EXCEPT ![t] = Some(r.result)]
         /\ cached' = r.cached
         /\ diskReads' = [diskReads EXCEPT ![Key(t)] = @ \cup r.reads]
         /\ prepares' = [prepares EXCEPT ![Key(t)] = @ + Len(r.prepared)]
         /\ downloads' = IF r.downloaded
                         THEN [downloads EXCEPT ![call[t].id.pkg] = @ + 1]
                         ELSE downloads
    /\ loads' = [loads EXCEPT ![Key(t)] = @ + 1]
    /\ pc' = [pc EXCEPT ![t] = "derive"]
    /\ UNCHANGED <<toolVars, compileVars, fontVars, sourceVars, clockVars, dirty, lastPass, doc, world, failure, fs, pass, slots,
                   holder, call, ret, derives, first>>

\* Variant of Derive whose fingerprint test does not ask for stored data: a
\* fresh cell whose first read hashes to the initial fingerprint derives
\* nothing.
DeriveNoGuard(t) ==
    /\ pc[t] = "derive"
    /\ LET cell == CellOf(t)
           res == Unwrap(result[t])
           fingerprint == hash128(res)
           same == cell.fingerprint = fingerprint
           prev == IF IsSome(cell.data) /\ Unwrap(cell.data).ok THEN cell.data ELSE None
           out == IF same
                  THEN IF IsSome(cell.data) THEN Unwrap(cell.data) ELSE res
                  ELSE IF res.ok THEN DeriveF(call[t].kind, res.val, prev) ELSE res
       IN
       /\ slots' = SetCell(t, [cell EXCEPT !.fingerprint = fingerprint,
                                           !.data = Some(out)])
       /\ derives' = IF ~same /\ res.ok
                     THEN [derives EXCEPT ![Key(t)] = @ + 1]
                     ELSE derives
       /\ ret' = [ret EXCEPT ![t] = Some(out)]
       /\ first' = IF IsSome(first[Key(t)]) THEN first
                   ELSE [first EXCEPT ![Key(t)] = Some(out)]
    /\ result' = [result EXCEPT ![t] = None]
    /\ pc' = [pc EXCEPT ![t] = "unlock"]
    /\ UNCHANGED <<toolVars, compileVars, fontVars, sourceVars, clockVars, prepares, downloads, dirty, lastPass, doc, world, failure, fs, cached, pass,
                   holder, call, loads, diskReads>>

\* get_or_init after the load: hash, compare with the stored fingerprint,
\* derive and store.
Derive(t) ==
    /\ pc[t] = "derive"
    /\ LET cell == CellOf(t)
           res == Unwrap(result[t])
           fingerprint == hash128(res)
           same == cell.fingerprint = fingerprint /\ IsSome(cell.data)
           prev == IF IsSome(cell.data) /\ Unwrap(cell.data).ok THEN cell.data ELSE None
           value == IF res.ok THEN DeriveF(call[t].kind, res.val, prev) ELSE res
           out == IF same THEN Unwrap(cell.data) ELSE value
       IN
       /\ slots' = SetCell(t, [cell EXCEPT !.fingerprint = fingerprint,
                                           !.data = Some(out)])
       /\ derives' = IF ~same /\ res.ok
                     THEN [derives EXCEPT ![Key(t)] = @ + 1]
                     ELSE derives
       /\ ret' = [ret EXCEPT ![t] = Some(out)]
       /\ first' = IF IsSome(first[Key(t)]) THEN first
                   ELSE [first EXCEPT ![Key(t)] = Some(out)]
    /\ result' = [result EXCEPT ![t] = None]
    /\ pc' = [pc EXCEPT ![t] = "unlock"]
    /\ UNCHANGED <<toolVars, compileVars, fontVars, sourceVars, clockVars, prepares, downloads, dirty, lastPass, doc, world, failure, fs, cached, pass,
                   holder, call, loads, diskReads>>

\* The call returns, with the cached value ("hit") or the value just stored
\* ("unlock"); the guard of the map is dropped.
Unlock(t) ==
    /\ pc[t] \in {"hit", "unlock"}
    /\ holder' = NoThread
    /\ pc' = [pc EXCEPT ![t] = "idle"]
    /\ ret' = [ret EXCEPT ![t] = None]
    /\ call' = [call EXCEPT ![t] = NoCall]
    /\ UNCHANGED <<toolVars, compileVars, fontVars, sourceVars, clockVars, prepares, downloads, dirty, lastPass, doc, world, failure, fs, cached, pass,
                   slots, result, loads, derives, diskReads, first>>

\* ------------------------------------------------- the filesystem changes
\* Another process writes the file (new content, new mtime).
Edit(b) ==
    /\ fs.kind \in {"file", "absent"}
    /\ fs' = File(b, 0)
    /\ fs' # fs
    /\ dirty' = world
    /\ UNCHANGED <<toolVars, compileVars, fontVars, sourceVars, clockVars, prepares, downloads, lastPass, doc, world, failure, cached, pass, slots,
                   holder, pc, call, result, ret, loads, derives, diskReads,
                   first>>

\* Another process touches the file: same bytes, new mtime.
Touch ==
    /\ fs.kind = "file"
    /\ fs' = File(fs.bytes, 1 - fs.mtime)
    /\ UNCHANGED <<toolVars, compileVars, fontVars, sourceVars, clockVars, prepares, downloads, dirty, lastPass, doc, world, failure, cached, pass, slots,
                   holder, pc, call, result, ret, loads, derives, diskReads,
                   first>>

Delete ==
    /\ fs.kind \in {"file", "dir"}
    /\ fs' = Absent
    /\ dirty' = world
    /\ UNCHANGED <<toolVars, compileVars, fontVars, sourceVars, clockVars, prepares, downloads, lastPass, doc, world, failure, cached, pass, slots,
                   holder, pc, call, result, ret, loads, derives, diskReads,
                   first>>

MkDir ==
    /\ fs.kind = "absent"
    /\ fs' = Dir
    /\ dirty' = world
    /\ UNCHANGED <<toolVars, compileVars, fontVars, sourceVars, clockVars, prepares, downloads, lastPass, doc, world, failure, cached, pass, slots,
                   holder, pc, call, result, ret, loads, derives, diskReads,
                   first>>

\* The engine's calls, made by the threads T.
Engine(T) ==
    \/ \E t \in T, id \in doc, kind \in Kinds : Call(t, id, kind)
    \/ \E t \in T : Lock(t)
    \/ \E t \in T : Check(t)
    \/ \E t \in T : Load(t)
    \/ \E t \in T : Derive(t)
    \/ \E t \in T : Unlock(t)

Environment ==
    \/ \E b \in Contents : Edit(b)
    \/ Touch
    \/ Delete
    \/ MkDir

\* get_or_init past its two early returns: the previous value is taken out
\* of the cell, f derives the new value from the read, the cell stores it.
Rederive ==
    /\ ~sdone
    /\ LET prev == IF IsSome(scell) /\ Unwrap(scell).ok
                   THEN Some(Unwrap(scell).val) ELSE None
           value == IF sread.ok
                    THEN SourceF(MainId, sread.val, prev, snext)
                    ELSE SErr(sread.err)
       IN /\ scell' = Some(value)
          /\ snext' = IF value.ok /\ value.val.obj = snext THEN snext + 1 ELSE snext
    /\ sold' = scell
    /\ sdone' = TRUE
    /\ UNCHANGED <<toolVars, compileVars, fontVars, clockVars, sread, doc, world, failure, fs, cached, pass, slots, holder,
                   pc, call, result, ret, loads, derives, diskReads, first,
                   dirty, lastPass, prepares, downloads>>

\* ------------------------------------------------------------ World::today
FileVarsUnchanged ==
    UNCHANGED <<doc, world, failure, fs, cached, pass, slots, holder, pc, call,
                result, ret, loads, derives, diskReads, first, dirty, lastPass,
                prepares, downloads>>

\* A thread of the engine calls World::today(offset).
TodayCall(t, offset) ==
    /\ world
    /\ tpc[t] = "idle"
    /\ tpc' = [tpc EXCEPT ![t] = "init"]
    /\ targ' = [targ EXCEPT ![t] = offset]
    /\ FileVarsUnchanged
    /\ UNCHANGED <<toolVars, compileVars, fontVars, sourceVars, clock, now, tret, captures, dates>>

\* Variant of TodayInit that reads the clock at every call.
TodayInitNoOnce(t) ==
    /\ tpc[t] = "init"
    /\ LET instant == DateTimeLocal(clock)
           value == Today(instant, targ[t])
       IN /\ now' = Some(instant)
          /\ captures' = captures + 1
          /\ tret' = [tret EXCEPT ![t] = Some(value)]
          /\ dates' = IF IsSome(dates[targ[t]]) THEN dates
                      ELSE [dates EXCEPT ![targ[t]] = Some(value)]
    /\ tpc' = [tpc EXCEPT ![t] = "done"]
    /\ FileVarsUnchanged
    /\ UNCHANGED <<toolVars, compileVars, fontVars, sourceVars, clock, targ>>

\* The body of World::today. self.now.get_or_init(chrono::Local::now): the
\* OnceLock runs the closure for the first caller only, the others get the
\* stored instant; the date is computed from that instant and returned.
TodayInit(t) ==
    /\ tpc[t] = "init"
    /\ LET instant == IF now = None THEN DateTimeLocal(clock) ELSE Unwrap(now)
           value == Today(instant, targ[t])
       IN /\ now' = Some(instant)
          /\ captures' = IF now = None THEN captures + 1 ELSE captures
          /\ tret' = [tret EXCEPT ![t] = Some(value)]
          /\ dates' = IF IsSome(dates[targ[t]]) THEN dates
                      ELSE [dates EXCEPT ![targ[t]] = Some(value)]
    /\ tpc' = [tpc EXCEPT ![t] = "done"]
    /\ FileVarsUnchanged
    /\ UNCHANGED <<toolVars, compileVars, fontVars, sourceVars, clock, targ>>

\* The caller has taken the value.
TodayDone(t) ==
    /\ tpc[t] = "done"
    /\ tpc' = [tpc EXCEPT ![t] = "idle"]
    /\ tret' = [tret EXCEPT ![t] = None]
    /\ targ' = [targ EXCEPT ![t] = None]
    /\ FileVarsUnchanged
    /\ UNCHANGED <<toolVars, compileVars, fontVars, sourceVars, clock, now, captures, dates>>

\* An hour passes.
Tick ==
    /\ clock < MaxClock
    /\ clock' = clock + 1
    /\ FileVarsUnchanged
    /\ UNCHANGED <<toolVars, compileVars, fontVars, sourceVars, now, tpc, targ, tret, captures, dates>>

\* ------------------------------------------------------- the font catalog
RestUnchanged ==
    /\ FileVarsUnchanged
    /\ UNCHANGED <<sourceVars, clockVars, compileVars, toolVars>>
    /\ UNCHANGED fpaths

\* fs::read and the read of Database::with_face_data: the file as it is now.
FontFsRead(path) ==
    IF path \in DOMAIN ffs THEN ffs[path] ELSE NoFile

\* FontSearcher::new and the head of search: an empty book, no slots, and
\* the database filled from the font paths.
FontSearcherNew ==
    /\ fphase = "none"
    /\ fphase' = "faces"
    /\ faces' = LoadFontsDir(ffs, forder, 1)
    /\ fpos' = 1
    /\ book' = <<>>
    /\ fonts' = <<>>
    /\ UNCHANGED <<forder, fprev, ffs, freads, ffirst, fret>>
    /\ RestUnchanged

\* Variant of SearchFace that registers a slot for every face, also when
\* its metadata cannot be read.
SearchFaceSlotAlways ==
    /\ fphase = "faces"
    /\ fpos <= Len(faces)
    /\ LET face == faces[fpos]
           content == FontFsRead(face.path)
           info == FontInfoNew(content, face.index)
       IN IF ~content.present
          THEN /\ fphase' = "panic"
               /\ UNCHANGED <<fpos, book, fonts>>
          ELSE /\ fphase' = fphase
               /\ fpos' = fpos + 1
               /\ book' = IF IsSome(info) THEN Append(book, Unwrap(info)) ELSE book
               /\ fonts' = Append(fonts, FontSlot(face.path, face.index, None))
    /\ UNCHANGED <<forder, fprev, ffs, faces, freads, ffirst, fret>>
    /\ RestUnchanged

\* Variant of SearchFace in which a face whose family the book already
\* lists is merged into the entry there and gets no slot.
SearchFaceMerging ==
    /\ fphase = "faces"
    /\ fpos <= Len(faces)
    /\ LET face == faces[fpos]
           content == FontFsRead(face.path)
           info == FontInfoNew(content, face.index)
       IN IF ~content.present
          THEN /\ fphase' = "panic"
               /\ UNCHANGED <<fpos, book, fonts>>
          ELSE /\ fphase' = fphase
               /\ fpos' = fpos + 1
               /\ IF IsSome(info) /\ \A n \in 1..Len(book) : book[n] # Unwrap(info)
                  THEN /\ book' = Append(book, Unwrap(info))
                       /\ fonts' = Append(fonts, FontSlot(face.path, face.index, None))
                  ELSE UNCHANGED <<book, fonts>>
    /\ UNCHANGED <<forder, fprev, ffs, faces, freads, ffirst, fret>>
    /\ RestUnchanged

\* One iteration of the loop over db.faces(): with_face_data reads the file
\* of the face (the expect panics when it cannot), FontInfo::new parses the
\* face, and a face with metadata gets a book entry and an empty slot.
SearchFace ==
    /\ fphase = "faces"
    /\ fpos <= Len(faces)
    /\ LET face == faces[fpos]
           content == FontFsRead(face.path)
           info == FontInfoNew(content, face.index)
       IN IF ~content.present
          THEN /\ fphase' = "panic"
               /\ UNCHANGED <<fpos, book, fonts>>
          ELSE /\ fphase' = fphase
               /\ fpos' = fpos + 1
               /\ IF IsSome(info)
                  THEN /\ book' = Append(book, Unwrap(info))
                       /\ fonts' = Append(fonts, FontSlot(face.path, face.index, None))
                  ELSE UNCHANGED <<book, fonts>>
    /\ UNCHANGED <<forder, fprev, ffs, faces, freads, ffirst, fret>>
    /\ RestUnchanged

\* The loop is over: search calls add_embedded.
SearchEnd ==
    /\ fphase = "faces"
    /\ fpos > Len(faces)
    /\ fphase' = "embedded"
    /\ fpos' = 1
    /\ UNCHANGED <<forder, fprev, ffs, faces, book, fonts, freads, ffirst, fret>>
    /\ RestUnchanged

\* Variant of AddEmbedded whose slot is created empty, like a slot of a
\* font file.
AddEmbeddedLazy ==
    /\ fphase = "embedded"
    /\ fpos <= Len(EmbeddedFonts)
    /\ LET e == EmbeddedFonts[fpos] IN
       /\ book' = Append(book, FontInfo(e.family))
       /\ fonts' = Append(fonts, FontSlot(EmptyPath, e.i, None))
    /\ fpos' = fpos + 1
    /\ UNCHANGED <<forder, fprev, ffs, fphase, faces, freads, ffirst, fret>>
    /\ RestUnchanged

\* add_embedded, one font of Font::iter: its info goes to the book, and a
\* slot with no path whose cell already holds the font to the slots.
AddEmbedded ==
    /\ fphase = "embedded"
    /\ fpos <= Len(EmbeddedFonts)
    /\ LET e == EmbeddedFonts[fpos]
           font == Font(e.family, EmptyPath)
       IN /\ book' = Append(book, font.info)
          /\ fonts' = Append(fonts, FontSlot(EmptyPath, e.i, Some(Some(font))))
    /\ fpos' = fpos + 1
    /\ UNCHANGED <<forder, fprev, ffs, fphase, faces, freads, ffirst, fret>>
    /\ RestUnchanged

\* search returns; SystemWorld::new moves the book and the slots into the
\* world.
SearchReturn ==
    /\ fphase = "embedded"
    /\ fpos > Len(EmbeddedFonts)
    /\ fphase' = "ready"
    /\ faces' = <<>>
    /\ fpos' = 1
    /\ UNCHANGED <<forder, fprev, ffs, book, fonts, freads, ffirst, fret>>
    /\ RestUnchanged

\* Variant of WorldFont whose slot reads and decodes the file at every call.
WorldFontNoCache(index) ==
    /\ fphase = "ready"
    /\ index <= Len(book)
    /\ IF index > Len(fonts)
       THEN /\ fphase' = "oob"
            /\ UNCHANGED <<fonts, freads, ffirst, fret>>
       ELSE LET slot == fonts[index]
                value == FontNew(FontFsRead(slot.path), slot.index, slot.path)
            IN /\ fphase' = fphase
               /\ fonts' = [fonts EXCEPT ![index].font = Some(value)]
               /\ freads' = [freads EXCEPT ![index] = @ + 1]
               /\ ffirst' = IF IsSome(ffirst[index]) THEN ffirst
                            ELSE [ffirst EXCEPT ![index] = Some(value)]
               /\ fret' = Some([slot |-> index, value |-> value,
                                hit |-> IsSome(slot.font)])
    /\ UNCHANGED <<forder, fprev, ffs, faces, fpos, book>>
    /\ RestUnchanged

\* Variant of WorldFont in which a failed load also fills the empty cells of
\* the other slots of the same file with None.
WorldFontPoisonsFile(index) ==
    /\ fphase = "ready"
    /\ index <= Len(book)
    /\ IF index > Len(fonts)
       THEN /\ fphase' = "oob"
            /\ UNCHANGED <<fonts, freads, ffirst, fret>>
       ELSE LET slot == fonts[index]
                value == IF IsSome(slot.font)
                         THEN Unwrap(slot.font)
                         ELSE FontNew(FontFsRead(slot.path), slot.index, slot.path)
                failed == ~IsSome(slot.font) /\ value = None
            IN /\ fphase' = fphase
               /\ fonts' = [h \in DOMAIN fonts |->
                              IF h = index \/ (failed /\ fonts[h].path = slot.path
                                                     /\ fonts[h].font = None)
                              THEN [fonts[h] EXCEPT !.font = Some(value)]
                              ELSE fonts[h]]
               /\ freads' = IF IsSome(slot.font) THEN freads
                            ELSE [freads EXCEPT ![index] = @ + 1]
               /\ ffirst' = IF IsSome(ffirst[index]) THEN ffirst
                            ELSE [ffirst EXCEPT ![index] = Some(value)]
               /\ fret' = Some([slot |-> index, value |-> value,
                                hit |-> IsSome(slot.font)])
    /\ UNCHANGED <<forder, fprev, ffs, faces, fpos, book>>
    /\ RestUnchanged

\* World::font(index) = self.fonts[index].get(): indexing panics out of
\* bounds; an empty cell is filled with the font read and decoded from the
\* file (None when either fails); the content of the cell is returned.
WorldFont(index) ==
    /\ fphase = "ready"
    /\ index <= Len(book)
    /\ IF index > Len(fonts)
       THEN /\ fphase' = "oob"
            /\ UNCHANGED <<fonts, freads, ffirst, fret>>
       ELSE LET slot == fonts[index]
                value == IF IsSome(slot.font)
                         THEN Unwrap(slot.font)
                         ELSE FontNew(FontFsRead(slot.path), slot.index, slot.path)
            IN /\ fphase' = fphase
               /\ fonts' = [fonts EXCEPT ![index].font = Some(value)]
               /\ freads' = IF IsSome(slot.font) THEN freads
                            ELSE [freads EXCEPT ![index] = @ + 1]
               /\ ffirst' = IF IsSome(ffirst[index]) THEN ffirst
                            ELSE [ffirst EXCEPT ![index] = Some(value)]
               /\ fret' = Some([slot |-> index, value |-> value,
                                hit |-> IsSome(slot.font)])
    /\ UNCHANGED <<forder, fprev, ffs, faces, fpos, book>>
    /\ RestUnchanged

\* Another process replaces, removes or creates a font file; read_dir may
\* yield a file that is created at any place among the others.
FontWrite(path, content) ==
    /\ content # ffs[path]
    /\ ffs' = [ffs EXCEPT ![path] = content]
    /\ IF ~ffs[path].present /\ content.present
       THEN forder' \in Orders
       ELSE forder' = forder
    /\ UNCHANGED <<fprev, fphase, faces, fpos, book, fonts, freads, ffirst, fret>>
    /\ RestUnchanged

\* compile() returns and drops its world and catalog; the next compile()
\* builds a catalog of its own.
CatalogDrop ==
    /\ fphase = "ready"
    /\ fphase' = "none"
    /\ fprev' = IF IsSome(fprev) THEN fprev
                ELSE Some([files |-> ffs,
                           slots |-> [h \in DOMAIN fonts |->
                                        [path |-> fonts[h].path,
                                         index |-> fonts[h].index]]])
    /\ book' = <<>>
    /\ fonts' = <<>>
    /\ freads' = [h \in Handles |-> 0]
    /\ ffirst' = [h \in Handles |-> None]
    /\ fret' = None
    /\ UNCHANGED <<ffs, forder, faces, fpos>>
    /\ RestUnchanged

\* ---------------------------------------------------- compile(), stepwise
CompileFrame ==
    /\ FileVarsUnchanged
    /\ UNCHANGED <<sourceVars, clockVars, fontVars, toolVars>>

\* compile() is called.
CompileCall ==
    /\ cpc = "idle"
    /\ cpc' = "input"
    /\ cresult' = None
    /\ UNCHANGED <<ccanon, cworld, cfile, cdocument>>
    /\ UNCHANGED <<cparams, cfs, cout, cprev, cdirty>>
    /\ CompileFrame

\* compile() returns res (or panics): the world is dropped with all it
\* holds.
Returns(res, date) ==
    /\ cresult' = Some(res)
    /\ cpc' = "idle"
    /\ ccanon' = None
    /\ cworld' = None
    /\ cfile' = None
    /\ cdocument' = None
    /\ cprev' = IF cdirty THEN None
                ELSE Some([result |-> res, date |-> date, again |-> IsSome(cprev)])
    /\ cdirty' = FALSE

\* Variant of NewInput that goes on with the path as given when it cannot
\* be canonicalized.
NewInputLenient ==
    /\ cpc = "input"
    /\ LET r == Canonicalize(cfs, cparams.input) IN
       ccanon' = Some(IF r.ok THEN r.path ELSE cparams.input)
    /\ cpc' = "root"
    /\ UNCHANGED <<cresult, cprev, cdirty, cworld, cfile, cdocument>>
    /\ UNCHANGED <<cparams, cfs, cout>>
    /\ CompileFrame

\* SystemWorld::new, input.canonicalize(): InputNotFound for NotFound, Io
\* for every other error.
NewInput ==
    /\ cpc = "input"
    /\ LET r == Canonicalize(cfs, cparams.input) IN
       IF r.ok
       THEN /\ ccanon' = Some(r.path)
            /\ cpc' = "root"
            /\ UNCHANGED <<cresult, cprev, cdirty, cworld, cfile, cdocument>>
       ELSE Returns(RErr("WorldCreationError",
                         IF r.kind = "NotFound" THEN "InputNotFound" ELSE "Io"),
                    None)
    /\ UNCHANGED <<cparams, cfs, cout>>
    /\ CompileFrame

\* Variant of NewRoot whose root is the working directory.
NewRootCwd ==
    /\ cpc = "root"
    /\ cworld' = Some([root |-> Cwd,
                        main |-> [pkg |-> NoPkg, vpath |-> VPathNew(Unwrap(ccanon))]])
    /\ cpc' = "world"
    /\ UNCHANGED <<cresult, cprev, cdirty, ccanon, cfile, cdocument>>
    /\ UNCHANGED <<cparams, cfs, cout>>
    /\ CompileFrame

\* SystemWorld::new, the root and the main id: the parent of the resolved
\* input (or ".") is canonicalized, RootNotFound for NotFound; the input
\* has to lie within it, else InputOutsideRoot; main has no package.
NewRoot ==
    /\ cpc = "root"
    /\ LET input == Unwrap(ccanon)
           parent == Parent(input)
           r == Canonicalize(cfs, IF IsSome(parent) THEN Unwrap(parent) ELSE CurDir)
           m == IF r.ok THEN WithinRoot(input, r.path) ELSE None
       IN IF ~r.ok
          THEN Returns(RErr("WorldCreationError",
                            IF r.kind = "NotFound" THEN "RootNotFound" ELSE "Io"),
                       None)
          ELSE IF ~IsSome(m)
          THEN Returns(RErr("WorldCreationError", "InputOutsideRoot"), None)
          ELSE /\ cworld' = Some([root |-> r.path,
                                   main |-> [pkg |-> NoPkg, vpath |-> Unwrap(m)]])
               /\ cpc' = "world"
               /\ UNCHANGED <<cresult, cprev, cdirty, ccanon, cfile, cdocument>>
    /\ UNCHANGED <<cparams, cfs, cout>>
    /\ CompileFrame

\* The first World::file(main) of the new world: the cell is empty, the
\* file is read and its bytes are the value.
WorldFileMain ==
    /\ cpc = "world"
    /\ cfile = None
    /\ LET w == Unwrap(cworld)
           r == read(w.main, w.root, cfs.entry, {}, FALSE).result
       IN cfile' = Some(IF r.ok THEN DeriveF("file", r.val, None) ELSE r)
    /\ UNCHANGED <<cparams, cfs, cpc, ccanon, cworld, cdocument, cout, cresult,
                   cprev, cdirty>>
    /\ CompileFrame

\* typst::compile(&world): the engine asks for World::source(main) and, if
\* the text wants it, for World::today(Some(0)); the document is a function
\* of what it was given.
TypstCompile ==
    /\ cpc = "world"
    /\ LET w == Unwrap(cworld)
           r == read(w.main, w.root, cfs.entry, {}, FALSE).result
           src == IF r.ok THEN DeriveF("source", r.val, None) ELSE r
       IN cdocument' =
            Some(IF src.ok
                 THEN DocOk(src.val,
                            IF UsesToday(src.val)
                            THEN Some(Today(DateTimeLocal(clock), Some(0)))
                            ELSE None)
                 ELSE DocErr(src.err))
    /\ cpc' = "compiled"
    /\ UNCHANGED <<cparams, cfs, ccanon, cworld, cfile, cout, cresult, cprev,
                   cdirty>>
    /\ CompileFrame

\* Variant of Export that refuses to overwrite an output file.
ExportNoOverwrite ==
    /\ cpc = "compiled"
    /\ LET document == Unwrap(cdocument) IN
       IF ~document.ok \/ cout[0].format # "none"
       THEN /\ Returns(RErr("Diagnostics", document.err), document.date)
            /\ cout' = cout
       ELSE /\ cout' = [cout EXCEPT ![0] = Pdf(document)]
            /\ Returns(ROk, document.date)
    /\ UNCHANGED <<cparams, cfs>>
    /\ CompileFrame

\* output.and_then(export) and the return of compile(): diagnostics when
\* the compilation failed; export_image for an extension equal to "png"
\* whatever its case, which panics on several pages without a page
\* template; export_pdf for every other output path.
Export ==
    /\ cpc = "compiled"
    /\ LET document == Unwrap(cdocument)
           output == cparams.output
       IN IF ~document.ok
          THEN /\ Returns(RErr("Diagnostics", document.err), document.date)
               /\ cout' = cout
          ELSE IF IsSome(output.ext) /\ EqIgnoreAsciiCase(Unwrap(output.ext), ExtPng)
          THEN IF ~output.indexable /\ document.pages > 1
               THEN /\ Returns(RErr("Panic", "multiple images"), document.date)
                    /\ cout' = cout
               ELSE /\ cout' = [k \in OutKeys |->
                                  IF output.indexable
                                  THEN IF k \in 1..document.pages
                                       THEN Png(document, k) ELSE cout[k]
                                  ELSE IF k = 0 THEN Png(document, 1) ELSE cout[k]]
                    /\ Returns(ROk, document.date)
          ELSE /\ cout' = [cout EXCEPT ![0] = Pdf(document)]
               /\ Returns(ROk, document.date)
    /\ UNCHANGED <<cparams, cfs>>
    /\ CompileFrame

\* Other processes: the entry file is written, removed or replaced by a
\* directory; its directory is removed with all it holds, and made again.
EntryWrite(node) ==
    /\ cfs.dir
    /\ node # cfs.entry
    /\ cfs' = [cfs EXCEPT !.entry = node]
    /\ cdirty' = (cpc # "idle")
    /\ cprev' = None
    /\ UNCHANGED <<cparams, cpc, ccanon, cworld, cfile, cdocument, cout, cresult>>
    /\ CompileFrame

DirRemove ==
    /\ cfs.dir
    /\ cfs' = [dir |-> FALSE, entry |-> Absent]
    /\ cdirty' = (cpc # "idle")
    /\ cprev' = None
    /\ UNCHANGED <<cparams, cpc, ccanon, cworld, cfile, cdocument, cout, cresult>>
    /\ CompileFrame

DirCreate ==
    /\ ~cfs.dir
    /\ cfs' = [dir |-> TRUE, entry |-> Absent]
    /\ cdirty' = (cpc # "idle")
    /\ cprev' = None
    /\ UNCHANGED <<cparams, cpc, ccanon, cworld, cfile, cdocument, cout, cresult>>
    /\ CompileFrame

\* ------------------------------------------------ set_permission, stepwise
ProgramUnchanged ==
    /\ FileVarsUnchanged
    /\ UNCHANGED <<sourceVars, clockVars, fontVars, compileVars>>
PermFrame == ProgramUnchanged /\ UNCHANGED <<metaVars, watchVars, serveVars>>
MetaFrame == ProgramUnchanged /\ UNCHANGED <<permVars, watchVars, serveVars>>
WatchFrame == ProgramUnchanged /\ UNCHANGED <<permVars, metaVars, serveVars>>
ServeFrame == ProgramUnchanged /\ UNCHANGED <<permVars, metaVars, watchVars>>

\* set_permission, the check: the two paths are compared as they are given.
PermCheck ==
    /\ ppc = "check"
    /\ IF pin = pout
       THEN /\ presult' = Some(PermErr("in-place update is not possible"))
            /\ ppc' = "done"
       ELSE /\ ppc' = "read"
            /\ UNCHANGED presult
    /\ UNCHANGED <<pin, pout, pfs, pfs0, popened>>
    /\ PermFrame

\* QPdf::read(input).unwrap(): the file is opened and parsed; it stays open,
\* its objects are read as the writer asks for them. A file that is missing
\* or cannot be parsed makes unwrap panic.
PermRead ==
    /\ ppc = "read"
    /\ LET f == Designates(pin) IN
       IF pfs[f] \in {PlainPdf, EncryptedPdf}
       THEN /\ popened' = popened \cup {f}
            /\ ppc' = "write"
            /\ UNCHANGED presult
       ELSE /\ popened' = IF pfs[f] = NoPdf THEN popened ELSE popened \cup {f}
            /\ presult' = Some(PermErr("panic"))
            /\ ppc' = "done"
    /\ UNCHANGED <<pin, pout, pfs, pfs0>>
    /\ PermFrame

\* .writer().encryption_params(..).write(output): the output is created or
\* truncated and the encrypted document is written to it. When it is the
\* file being read, qpdf reads from the file it has just truncated: the
\* write fails or goes through, and the file holds what came of it.
PermWrite ==
    /\ ppc = "write"
    /\ LET f == Designates(pout) IN
       IF f \in popened
       THEN \E content \in {TruncatedPdf, EncryptedPdf}, ok \in BOOLEAN :
                /\ pfs' = [pfs EXCEPT ![f] = content]
                /\ presult' = Some(IF ok THEN PermOk ELSE PermErr("write"))
       ELSE /\ pfs' = [pfs EXCEPT ![f] = EncryptedPdf]
            /\ presult' = Some(PermOk)
    /\ ppc' = "done"
    /\ UNCHANGED <<pin, pout, pfs0, popened>>
    /\ PermFrame

\* --------------------------------------------------------- update_metadata
\* update_metadata: the document is loaded, the part number extracted, the
\* packet generated and put in place, the Info dictionary replaced, and the
\* document saved over the file. The date is chrono::Local::now() as
\* %Y%m%d.
UpdateMetadata ==
    /\ mpc = "call"
    /\ mpc' = "done"
    /\ IF ~mdoc.loads
       THEN /\ mresult' = Some(PermErr("load"))
            /\ mdoc' = mdoc
       ELSE LET date == FormatI32(Today(DateTimeLocal(clock), None).day)
                pdfua_part == extract_pdfua_part(mdoc)
                xmp_string == generate_xmp(mmeta, pdfua_part, date)
            IN /\ mdoc' = update_info_dict(update_xmp_stream(mdoc, xmp_string),
                                           mmeta, date)
               /\ mresult' = Some(PermOk)
    /\ UNCHANGED <<mdoc0, mmeta>>
    /\ MetaFrame

\* ------------------------------------------------------------------ watch
\* The watcher calls the callback with an event; it calls it again only
\* when the callback has returned.
WatchEvent(event) ==
    /\ wpc = "idle"
    /\ wevents < MaxEvents
    /\ wevents' = wevents + 1
    /\ wevent' = Some(event)
    /\ wpc' = "called"
    /\ wcompiles' = 0
    /\ wnotifies' = 0
    /\ UNCHANGED <<wresult, wpermit, hpc, wrefresh>>
    /\ WatchFrame

\* Variant of WatchCallback that compares the extensions as they are.
WatchCallbackCaseSensitive ==
    /\ wpc = "called"
    /\ LET event == Unwrap(wevent)
           listed(n) == IsSome(event.paths[n]) /\ Unwrap(event.paths[n]) \in EXTENSIONS
       IN wpc' = IF event.kind = ContentChange /\ \E n \in 1..Len(event.paths) : listed(n)
                 THEN "compile" ELSE "idle"
    /\ UNCHANGED <<wevent, wevents, wcompiles, wnotifies, wresult, wpermit, hpc,
                   wrefresh>>
    /\ WatchFrame

\* `changed` of the callback: the lowercased extension of one of the paths
\* of the event is listed.
changed(event) ==
    \E n \in 1..Len(event.paths) :
        /\ IsSome(event.paths[n])
        /\ to_lowercase(Unwrap(event.paths[n])) \in EXTENSIONS

\* The callback up to `if !changed { return; }`: only Modify(Data(Content))
\* goes on, and only if the lowercased extension of one of the paths is
\* listed.
WatchCallback ==
    /\ wpc = "called"
    /\ LET event == Unwrap(wevent)
       IN wpc' = IF event.kind = ContentChange /\ changed(event)
                 THEN "compile" ELSE "idle"
    /\ UNCHANGED <<wevent, wevents, wcompiles, wnotifies, wresult, wpermit, hpc,
                   wrefresh>>
    /\ WatchFrame

\* compile(&params) inside the callback: its result is logged.
WatchCompile ==
    /\ wpc = "compile"
    /\ wcompiles' = wcompiles + 1
    /\ \E res \in {ROk, RErr("Diagnostics", "")} : wresult' = Some(res)
    /\ wpc' = "notify"
    /\ UNCHANGED <<wevent, wevents, wnotifies, wpermit, hpc, wrefresh>>
    /\ WatchFrame

\* state.changed.notify_one(): the permit is stored (a waiting handler
\* takes it when it runs); a permit already there stays the only one.
WatchNotify ==
    /\ wpc = "notify"
    /\ wnotifies' = wnotifies + 1
    /\ wpermit' = TRUE
    /\ wpc' = "idle"
    /\ UNCHANGED <<wevent, wevents, wcompiles, wresult, hpc, wrefresh>>
    /\ WatchFrame

\* handler: state.changed.notified().await takes the permit.
HandlerNotified ==
    /\ hpc = "await"
    /\ wpermit
    /\ wpermit' = FALSE
    /\ hpc' = "send"
    /\ UNCHANGED <<wevent, wevents, wpc, wcompiles, wnotifies, wresult, wrefresh>>
    /\ WatchFrame

\* handler: socket.send("refresh"), and back to the head of the loop.
HandlerSend ==
    /\ hpc = "send"
    /\ wrefresh' = wrefresh + 1
    /\ hpc' = "await"
    /\ UNCHANGED <<wevent, wevents, wpc, wcompiles, wnotifies, wresult, wpermit>>
    /\ WatchFrame

\* ------------------------------------------------- watch(), all its tasks
\* The two places that recompile: the task that waits for lines of stdin,
\* and the callback the watcher runs on its own thread.
Jobs == {"stdin", "callback"}
OtherJob(k) == IF k = "stdin" THEN "callback" ELSE "stdin"
\* The clients whose handler task exists.
Listening == {c \in Clients : vh[c] # "none"}

\* watch, the initial compile(): the result is logged, Ok or Err, and watch
\* goes on; a panic of compile() unwinds watch().
MainCompile ==
    /\ vmain = "initial"
    /\ \E res \in {"ok", "err", "panic"} :
         /\ vinit' = res
         /\ vmain' = IF res = "panic" THEN "returned" ELSE "spawn"
         /\ vret' = IF res = "panic" THEN "panic" ELSE vret
         /\ vout' = IF res = "ok" THEN "complete" ELSE vout
    /\ UNCHANGED <<vctrlc, vjob, vres, vlines, vclosed, vwatch, vpermit, vh,
                   vwaiters, vowed, vserved>>
    /\ ServeFrame

\* watch: the state is built, the browser opened, and the task that waits
\* for Ctrl+C is spawned.
MainSpawnCtrlC ==
    /\ vmain = "spawn"
    /\ vmain' = "stdin"
    /\ vctrlc' = "wait"
    /\ UNCHANGED <<vinit, vret, vjob, vres, vlines, vclosed, vwatch, vpermit, vh,
                   vwaiters, vowed, vout, vserved>>
    /\ ServeFrame

\* watch: the thread that reads stdin and the task that receives its lines
\* are spawned.
MainSpawnStdin ==
    /\ vmain = "stdin"
    /\ vmain' = "watcher"
    /\ vjob' = [vjob EXCEPT !.stdin = "start"]
    /\ UNCHANGED <<vinit, vret, vctrlc, vres, vlines, vclosed, vwatch, vpermit,
                   vh, vwaiters, vowed, vout, vserved>>
    /\ ServeFrame

\* watch: recommended_watcher(..)? and watcher.watch(..)?, then the server
\* future is made and select! starts to wait on it and on
\* shutdown.notified(); an error of the watcher returns from watch().
MainWatcher ==
    /\ vmain = "watcher"
    /\ \E ok \in BOOLEAN :
         IF ok
         THEN /\ vmain' = "select"
              /\ vwatch' = "watching"
              /\ vret' = vret
         ELSE /\ vmain' = "returned"
              /\ vwatch' = vwatch
              /\ vret' = "watcher error"
    /\ UNCHANGED <<vinit, vctrlc, vjob, vres, vlines, vclosed, vpermit, vh,
                   vwaiters, vowed, vout, vserved>>
    /\ ServeFrame

\* The user presses Ctrl+C: ctrl_c().await completes.
CtrlC ==
    /\ vctrlc = "wait"
    /\ vctrlc' = "signalled"
    /\ UNCHANGED <<vmain, vinit, vret, vjob, vres, vlines, vclosed, vwatch,
                   vpermit, vh, vwaiters, vowed, vout, vserved>>
    /\ ServeFrame

\* The ctrl_c task: shutdown.notify_waiters() wakes the tasks that wait on
\* shutdown.notified() at this moment, and stores nothing for the others.
CtrlCNotifyWaiters ==
    /\ vctrlc = "signalled"
    /\ vctrlc' = "done"
    /\ vmain' = IF vmain = "select" THEN "shutdown" ELSE vmain
    /\ vjob' = [vjob EXCEPT !.stdin = IF @ = "select" THEN "woken" ELSE @]
    /\ UNCHANGED <<vinit, vret, vres, vlines, vclosed, vwatch, vpermit, vh,
                   vwaiters, vowed, vout, vserved>>
    /\ ServeFrame

\* watch, the shutdown branch of select!: "Shutting down..." is logged and
\* watcher.unwatch(..)? is called.
MainUnwatch ==
    /\ vmain = "shutdown"
    /\ \E ok \in BOOLEAN :
         IF ok
         THEN /\ vmain' = "remove"
              /\ vwatch' = "unwatched"
              /\ vret' = vret
         ELSE /\ vmain' = "returned"
              /\ vwatch' = "dropped"
              /\ vret' = "unwatch error"
    /\ UNCHANGED <<vinit, vctrlc, vjob, vres, vlines, vclosed, vpermit, vh,
                   vwaiters, vowed, vout, vserved>>
    /\ ServeFrame

\* watch: remove_file(&output)?, "Bye!", Ok(()); the watcher is dropped.
MainRemoveFile ==
    /\ vmain = "remove"
    /\ vmain' = "returned"
    /\ vwatch' = "dropped"
    /\ IF vout = "absent"
       THEN vret' = "remove error" /\ vout' = vout
       ELSE vret' = "ok" /\ vout' = "absent"
    /\ UNCHANGED <<vinit, vctrlc, vjob, vres, vlines, vclosed, vpermit, vh,
                   vwaiters, vowed, vserved>>
    /\ ServeFrame

\* The user presses Enter: the thread that reads stdin sends () through the
\* channel; when the receiving task is gone the send fails and the thread
\* ends.
StdinLine ==
    /\ vjob.stdin # "none"
    /\ ~vclosed
    /\ vlines < MaxLines
    /\ IF vjob.stdin \in {"done", "dead"}
       THEN vclosed' = TRUE /\ vlines' = vlines
       ELSE vclosed' = vclosed /\ vlines' = vlines + 1
    /\ UNCHANGED <<vmain, vinit, vret, vctrlc, vjob, vres, vwatch, vpermit, vh,
                   vwaiters, vowed, vout, vserved>>
    /\ ServeFrame

\* stdin ends: the reading thread ends and drops the sender.
StdinEof ==
    /\ vjob.stdin # "none"
    /\ ~vclosed
    /\ vclosed' = TRUE
    /\ UNCHANGED <<vmain, vinit, vret, vctrlc, vjob, vres, vlines, vwatch,
                   vpermit, vh, vwaiters, vowed, vout, vserved>>
    /\ ServeFrame

\* The stdin task at the head of its loop: select! makes stdin_rx.recv() and
\* shutdown.notified() and waits on both.
StdinSelect ==
    /\ vjob.stdin = "start"
    /\ vjob' = [vjob EXCEPT !.stdin = "select"]
    /\ UNCHANGED <<vmain, vinit, vret, vctrlc, vres, vlines, vclosed, vwatch,
                   vpermit, vh, vwaiters, vowed, vout, vserved>>
    /\ ServeFrame

\* The stdin task, the recv branch with a line: the other branch is dropped,
\* "Manual recompilation triggered" is logged and compile() is entered.
StdinRecv ==
    /\ vjob.stdin \in {"select", "woken"}
    /\ vlines > 0
    /\ vlines' = vlines - 1
    /\ vjob' = [vjob EXCEPT !.stdin = "compiling"]
    /\ UNCHANGED <<vmain, vinit, vret, vctrlc, vres, vclosed, vwatch, vpermit,
                   vh, vwaiters, vowed, vout, vserved>>
    /\ ServeFrame

\* The stdin task, the recv branch with None: the sender is gone, break.
StdinClosed ==
    /\ vjob.stdin \in {"select", "woken"}
    /\ vlines = 0
    /\ vclosed
    /\ vjob' = [vjob EXCEPT !.stdin = "done"]
    /\ UNCHANGED <<vmain, vinit, vret, vctrlc, vres, vlines, vclosed, vwatch,
                   vpermit, vh, vwaiters, vowed, vout, vserved>>
    /\ ServeFrame

\* The stdin task, the shutdown branch: break.
StdinShutdown ==
    /\ vjob.stdin = "woken"
    /\ vjob' = [vjob EXCEPT !.stdin = "done"]
    /\ UNCHANGED <<vmain, vinit, vret, vctrlc, vres, vlines, vclosed, vwatch,
                   vpermit, vh, vwaiters, vowed, vout, vserved>>
    /\ ServeFrame

\* The watcher calls the callback with an event while the directory is
\* watched and the callback is not running: an event of another kind, or
\* with no listed extension, returns at once; otherwise "Change detected.
\* Recompiling..." is logged and compile() is entered.
CallbackEvent(event) ==
    /\ vwatch = "watching"
    /\ vjob.callback = "idle"
    /\ vjob' = IF event.kind = ContentChange /\ changed(event)
               THEN [vjob EXCEPT !.callback = "compiling"]
               ELSE vjob
    /\ UNCHANGED <<vmain, vinit, vret, vctrlc, vres, vlines, vclosed, vwatch,
                   vpermit, vh, vwaiters, vowed, vout, vserved>>
    /\ ServeFrame

\* Variant of CompileFails in which a job whose compile() failed logs the
\* error and ends, without notify_one.
CompileFailsStops(k) ==
    /\ vjob[k] = "compiling"
    /\ vjob' = [vjob EXCEPT ![k] = "dead"]
    /\ vres' = [vres EXCEPT ![k] = "err"]
    /\ UNCHANGED <<vmain, vinit, vret, vctrlc, vlines, vclosed, vwatch, vpermit,
                   vh, vwaiters, vowed, vout, vserved>>
    /\ ServeFrame

\* compile() of a job returns Err before anything is written: the job logs
\* the error and goes on to notify_one.
CompileFails(k) ==
    /\ vjob[k] = "compiling"
    /\ vjob' = [vjob EXCEPT ![k] = "notify"]
    /\ vres' = [vres EXCEPT ![k] = "err"]
    /\ vowed' = vowed \cup Listening
    /\ UNCHANGED <<vmain, vinit, vret, vctrlc, vlines, vclosed, vwatch, vpermit,
                   vh, vwaiters, vout, vserved>>
    /\ ServeFrame

\* compile() of a job panics: the stdin task ends, the thread of the
\* watcher unwinds.
CompilePanics(k) ==
    /\ vjob[k] = "compiling"
    /\ vjob' = [vjob EXCEPT ![k] = "dead"]
    /\ vres' = [vres EXCEPT ![k] = "panic"]
    /\ UNCHANGED <<vmain, vinit, vret, vctrlc, vlines, vclosed, vwatch, vpermit,
                   vh, vwaiters, vowed, vout, vserved>>
    /\ ServeFrame

\* compile() of a job has its document and starts write(&params.output, ..):
\* the file is created or truncated.
CompileExport(k) ==
    /\ vjob[k] = "compiling"
    /\ vjob' = [vjob EXCEPT ![k] = "writing"]
    /\ vout' = "partial"
    /\ UNCHANGED <<vmain, vinit, vret, vctrlc, vres, vlines, vclosed, vwatch,
                   vpermit, vh, vwaiters, vowed, vserved>>
    /\ ServeFrame

\* The write of a job ends and its compile() returns Ok, which is logged;
\* the file is whole unless the other job is still writing into it or watch
\* has removed it.
ExportDone(k) ==
    /\ vjob[k] = "writing"
    /\ vjob' = [vjob EXCEPT ![k] = "notify"]
    /\ vres' = [vres EXCEPT ![k] = "ok"]
    /\ vowed' = vowed \cup Listening
    /\ vout' = IF vout = "absent" \/ vjob[OtherJob(k)] = "writing"
               THEN vout ELSE "complete"
    /\ UNCHANGED <<vmain, vinit, vret, vctrlc, vlines, vclosed, vwatch, vpermit,
                   vh, vwaiters, vserved>>
    /\ ServeFrame

\* changed.notify_one() of a job: the handler that has waited longest is
\* woken, or, when none waits, the permit is stored (there is one permit at
\* most); the stdin task goes back to the head of its loop, the callback
\* returns.
JobNotify(k) ==
    /\ vjob[k] = "notify"
    /\ vjob' = [vjob EXCEPT ![k] = IF k = "stdin" THEN "start" ELSE "idle"]
    /\ vres' = [vres EXCEPT ![k] = "none"]
    /\ IF vwaiters # <<>>
       THEN /\ vh' = [vh EXCEPT ![Head(vwaiters)] = "send"]
            /\ vwaiters' = Tail(vwaiters)
            /\ vpermit' = vpermit
       ELSE /\ vpermit' = TRUE
            /\ UNCHANGED <<vh, vwaiters>>
    /\ UNCHANGED <<vmain, vinit, vret, vctrlc, vlines, vclosed, vwatch, vowed,
                   vout, vserved>>
    /\ ServeFrame

\* GET /listen while the server runs: the upgrade spawns handler(socket,
\* state) for the client.
Listen(c) ==
    /\ vmain = "select"
    /\ vh[c] = "none"
    /\ vh' = [vh EXCEPT ![c] = "loop"]
    /\ UNCHANGED <<vmain, vinit, vret, vctrlc, vjob, vres, vlines, vclosed,
                   vwatch, vpermit, vwaiters, vowed, vout, vserved>>
    /\ ServeFrame

\* handler, state.changed.notified().await: a stored permit is taken;
\* otherwise the task joins the waiters.
HandlerAwait(c) ==
    /\ vh[c] = "loop"
    /\ IF vpermit
       THEN /\ vpermit' = FALSE
            /\ vh' = [vh EXCEPT ![c] = "send"]
            /\ vwaiters' = vwaiters
       ELSE /\ vpermit' = vpermit
            /\ vh' = [vh EXCEPT ![c] = "await"]
            /\ vwaiters' = Append(vwaiters, c)
    /\ UNCHANGED <<vmain, vinit, vret, vctrlc, vjob, vres, vlines, vclosed,
                   vwatch, vowed, vout, vserved>>
    /\ ServeFrame

\* handler, socket.send("refresh"), and back to the head of the loop.
HandlerRefresh(c) ==
    /\ vh[c] = "send"
    /\ vh' = [vh EXCEPT ![c] = "loop"]
    /\ vowed' = vowed \ {c}
    /\ UNCHANGED <<vmain, vinit, vret, vctrlc, vjob, vres, vlines, vclosed,
                   vwatch, vpermit, vwaiters, vout, vserved>>
    /\ ServeFrame

\* GET /target.pdf while the server runs: pdf reads the output file as it
\* is at this moment, and panics when it cannot be read.
GetPdf ==
    /\ vmain = "select"
    /\ vserved' = IF vout = "absent" THEN "panic" ELSE vout
    /\ UNCHANGED <<vmain, vinit, vret, vctrlc, vjob, vres, vlines, vclosed,
                   vwatch, vpermit, vh, vwaiters, vowed, vout>>
    /\ ServeFrame

\* A world over the entry file alone.
InitMain == InitWith({{MainId}})
\* One engine thread, every document.
Init == InitWith(Docs)
Next == SystemWorldNew \/ CompileReturn \/ Engine({1}) \/ Environment
Spec == Init /\ [][Next]_vars

\* Several engine threads racing inside one world, while the file is
\* rewritten and deleted under them.
ConcDocs == { {MainId, PkgFileId} }
InitConc == InitWith(ConcDocs)
EnvironmentConc == (\E b \in Contents : Edit(b)) \/ Delete
NextConc == SystemWorldNew \/ Engine(Threads) \/ EnvironmentConc
SpecConc == InitConc /\ [][NextConc]_vars

\* Threads asking one world for the date while time passes.
NextToday ==
    \/ SystemWorldNew
    \/ CompileReturn
    \/ \E t \in Threads, o \in Offsets : TodayCall(t, o)
    \/ \E t \in Threads : TodayInit(t)
    \/ \E t \in Threads : TodayDone(t)
    \/ Tick
SpecToday == InitMain /\ [][NextToday]_vars

\* One world, used by several threads at once: each thread makes one call
\* after the other, World::source, World::file, World::font or
\* World::today. A thread that can go on does go on (the read and the
\* download return), and a thread that waits for the mutex gets it when it
\* is free often enough.
NextShared ==
    \/ ~world /\ FontSearcherNew
    \/ ~world /\ SearchFace
    \/ ~world /\ SearchEnd
    \/ ~world /\ AddEmbedded
    \/ ~world /\ SearchReturn
    \/ fphase = "ready" /\ SystemWorldNew
    \/ \E t \in Threads, id \in doc, kind \in Kinds : tpc[t] = "idle" /\ Call(t, id, kind)
    \/ \E t \in Threads : Lock(t)
    \/ \E t \in Threads : Check(t)
    \/ \E t \in Threads : Load(t)
    \/ \E t \in Threads : Derive(t)
    \/ \E t \in Threads : Unlock(t)
    \/ \E index \in {1, Len(fonts)} : world /\ WorldFont(index)
    \/ \E t \in Threads : pc[t] = "idle" /\ TodayCall(t, None)
    \/ \E t \in Threads : TodayInit(t)
    \/ \E t \in Threads : TodayDone(t)
SharedFairness ==
    \A t \in Threads :
        /\ SF_vars(Lock(t))
        /\ WF_vars(Check(t) \/ Load(t) \/ Derive(t) \/ Unlock(t))
        /\ WF_vars(TodayInit(t) \/ TodayDone(t))
InitShared == InitWith({{MainId}, {PkgFileId}})
SpecShared == InitShared /\ [][NextShared]_vars /\ SharedFairness

\* A font catalog is built and used while the font files change.
NextFonts ==
    \/ FontSearcherNew
    \/ SearchFace
    \/ SearchEnd
    \/ AddEmbedded
    \/ SearchReturn
    \/ \E index \in Handles : WorldFont(index)
    \/ \E path \in DOMAIN ffs : \E content \in FontContents(path) :
           FontWrite(path, content)
SpecFonts == InitMain /\ [][NextFonts]_vars

\* One catalog after the other is built over a font directory that changes
\* between the builds only.
NextBuilds ==
    \/ FontSearcherNew
    \/ SearchFace
    \/ SearchEnd
    \/ AddEmbedded
    \/ SearchReturn
    \/ CatalogDrop
    \/ \E path \in DOMAIN ffs : \E content \in FontContents(path) :
           fphase = "none" /\ FontWrite(path, content)
SpecBuilds == InitMain /\ [][NextBuilds]_vars

\* FontSearcher::search over every choice of font_paths and of the files in
\* them: the directories none, one or two, no file in two of them; a file
\* absent, a single font, or a collection, with a family that another file
\* has and one that is embedded too.
FontPathChoices ==
    {<<>>, <<{"f1", "f2"}>>, <<{"f1"}>>, <<{"f2"}>>, <<{"f1"}, {"f2"}>>,
     <<{"f2"}, {"f1"}>>}
CatalogContents ==
    {NoFile, FontFile(<<"A">>), FontFile(<<"H", "B">>), FontFile(<<"E", "A">>)}
\* The orders in which read_dir can yield the files of one directory.
DirOrders(dir) ==
    {o \in [1..Cardinality(dir) -> dir] :
        \A i, j \in 1..Cardinality(dir) : o[i] = o[j] => i = j}
\* `for path in font_paths { db.load_fonts_dir(path) }`: the directories one
\* after the other, the files of each as read_dir yields them.
RECURSIVE ScanOrders(_)
ScanOrders(paths) ==
    IF paths = <<>> THEN {<<>>}
    ELSE {a \o b : a \in DirOrders(Head(paths)), b \in ScanOrders(Tail(paths))}
InitCatalog ==
    /\ InitFiles({{MainId}})
    /\ SourceRest
    /\ ClockInit
    /\ CompileRest
    /\ ToolRest
    /\ fpaths \in FontPathChoices
    /\ forder \in ScanOrders(fpaths)
    /\ ffs \in [{FontPaths[n] : n \in 1..Len(FontPaths)} -> CatalogContents]
    /\ fphase = "none"
    /\ faces = <<>>
    /\ fpos = 1
    /\ book = <<>>
    /\ fonts = <<>>
    /\ freads = [h \in Handles |-> 0]
    /\ ffirst = [h \in Handles |-> None]
    /\ fret = None
    /\ fprev = None
NextCatalog ==
    \/ FontSearcherNew
    \/ SearchFace
    \/ SearchEnd
    \/ AddEmbedded
    \/ SearchReturn
SpecCatalog == InitCatalog /\ [][NextCatalog]_vars

\* compile() is called again and again with the same parameters while the
\* entry file and its directory change and time passes.
InitCompile ==
    /\ InitFiles({{MainId}})
    /\ SourceRest
    /\ ClockInit
    /\ FontInit
    /\ \E params \in Params : CompileInit(params)
    /\ ToolRest
NextCompile ==
    \/ CompileCall
    \/ NewInput
    \/ NewRoot
    \/ WorldFileMain
    \/ TypstCompile
    \/ Export
    \/ \E node \in EntryNodes : EntryWrite(node)
    \/ DirRemove
    \/ DirCreate
    \/ Tick
SpecCompile == InitCompile /\ [][NextCompile]_vars

\* set_permission on every pair of paths, over files of every kind; the
\* file the link points to exists.
InitPermission ==
    /\ InitFiles({{MainId}})
    /\ SourceRest
    /\ ClockInit
    /\ FontInit
    /\ CompileRest
    /\ MetaRest
    /\ WatchInit
    /\ ServeInit
    /\ \E input \in PermPaths, output \in PermPaths :
       \E files \in [PdfFiles -> {NoPdf, PlainPdf, EncryptedPdf, NotPdf}] :
           /\ files["a"] # NoPdf
           /\ PermInit(input, output, files)
NextPermission == PermCheck \/ PermRead \/ PermWrite
SpecPermission == InitPermission /\ [][NextPermission]_vars

\* update_metadata on every document and every metadata, on either side of
\* midnight.
InitMetadata ==
    /\ InitFiles({{MainId}})
    /\ SourceRest
    /\ ClockInit
    /\ FontInit
    /\ CompileRest
    /\ PermRest
    /\ WatchInit
    /\ ServeInit
    /\ \E d \in PdfDocs, metadata \in Metadatas : MetaInit(d, metadata)
NextMetadata == UpdateMetadata \/ Tick
SpecMetadata == InitMetadata /\ [][NextMetadata]_vars

\* watch() after its first compilation: the watcher delivers events, the
\* callback handles one after the other, a client listens. A callback that
\* was called runs to its end.
NextWatch ==
    \/ \E event \in WatchEvents : WatchEvent(event)
    \/ WatchCallback
    \/ WatchCompile
    \/ WatchNotify
    \/ HandlerNotified
    \/ HandlerSend
SpecWatch ==
    InitMain /\ [][NextWatch]_vars /\ WF_vars(WatchCallback \/ WatchCompile \/ WatchNotify)

\* watch() from its call on: the main task, the ctrl_c task, the stdin
\* thread and task, the watcher with its callback, the server with the
\* handlers of /listen and /target.pdf, and what the user does: edits
\* files, presses Enter and Ctrl+C, opens pages. A task or thread that can
\* take a step does take it; the user need not do anything.
ServeEvents ==
    {[kind |-> ContentChange, paths |-> <<Some(<<"t", "y", "p">>)>>],
     [kind |-> ContentChange, paths |-> <<Some(<<"p", "d", "f">>)>>],
     [kind |-> "Create(File)", paths |-> <<Some(<<"t", "y", "p">>)>>]}
ServeStart ==
    \/ MainCompile
    \/ MainSpawnCtrlC
    \/ MainSpawnStdin
    \/ MainWatcher
ServeJobs ==
    \/ StdinLine
    \/ StdinSelect
    \/ StdinRecv
    \/ \E event \in ServeEvents : CallbackEvent(event)
    \/ \E k \in Jobs : CompileFails(k)
    \/ \E k \in Jobs : CompileExport(k)
    \/ \E k \in Jobs : ExportDone(k)
    \/ \E k \in Jobs : JobNotify(k)
ServeStop ==
    \/ CtrlC
    \/ CtrlCNotifyWaiters
    \/ MainUnwatch
    \/ MainRemoveFile
    \/ StdinEof
    \/ StdinClosed
    \/ StdinShutdown
    \/ \E k \in Jobs : CompilePanics(k)
ServeClients ==
    \/ \E c \in Clients : Listen(c)
    \/ \E c \in Clients : HandlerAwait(c)
    \/ \E c \in Clients : HandlerRefresh(c)
ServeFairness ==
    /\ WF_vars(MainCompile \/ MainSpawnCtrlC \/ MainSpawnStdin \/ MainWatcher
                  \/ MainUnwatch \/ MainRemoveFile)
    /\ WF_vars(CtrlCNotifyWaiters)
    /\ WF_vars(StdinSelect \/ StdinRecv \/ StdinClosed \/ StdinShutdown)
    /\ \A k \in Jobs :
         WF_vars(CompileFails(k) \/ CompilePanics(k) \/ CompileExport(k)
                   \/ ExportDone(k) \/ JobNotify(k))
    /\ \A c \in Clients : WF_vars(HandlerAwait(c) \/ HandlerRefresh(c))
\* The service runs and pages listen; nobody stops it.
NextRefresh == ServeStart \/ ServeJobs \/ ServeClients
SpecRefresh == InitMain /\ [][NextRefresh]_vars /\ ServeFairness
\* The service runs and is stopped; no page listens.
NextShutdown == ServeStart \/ ServeJobs \/ ServeStop
SpecShutdown == InitMain /\ [][NextShutdown]_vars /\ ServeFairness
\* The service runs and the page fetches the document.
NextServe == ServeStart \/ ServeJobs \/ ServeStop \/ GetPdf
SpecServe == InitMain /\ [][NextServe]_vars

\* The source closure on every cell value and every read.
InitSource ==
    /\ InitFiles({{MainId}})
    /\ ClockInit
    /\ FontInit
    /\ CompileRest
    /\ ToolRest
    /\ scell \in SourceCells
    /\ sread \in SourceReads
    /\ sold = scell
    /\ snext = 2
    /\ sdone = FALSE
NextSource == Rederive
SpecSource == InitSource /\ [][NextSource]_vars

\* ================================================================= claims
Returning(t) == pc[t] \in {"hit", "unlock"}
InSection == {"check", "load", "derive", "hit", "unlock"}
Cell(id, kind) == <<id, kind>>

\* C1: within one world (one pass, nothing resets it) the load closure of a
\* cell is invoked at most once and its derive closure f at most once,
\* however many get_or_init calls are made on the cell.
C1_AtMostOneLoadAndDerive ==
    \A c \in Cells : loads[c] <= 1 /\ derives[c] <= 1

\* A later call on a cell is being answered while the cell has been loaded
\* and derived once.
C1_Witness ==
    \E t \in Threads :
        pc[t] = "hit" /\ loads[Key(t)] = 1 /\ derives[Key(t)] = 1

\* C2: once the first access of a cell in a pass has succeeded, every later
\* access of the cell in that pass returns that same value, reads nothing and
\* leaves the cell's data, fingerprint and accessed flag as they are,
\* whatever has happened to the file in between.
C2_Step(t) ==
    ( /\ pc[t] = "check"
      /\ pc'[t] # "check"
      /\ IsSome(first[Key(t)])
      /\ Unwrap(first[Key(t)]).ok )
    => ( /\ pc'[t] = "hit"
         /\ ret'[t] = first[Key(t)]
         /\ slots'[call[t].id][call[t].kind] = CellOf(t)
         /\ loads' = loads
         /\ diskReads' = diskReads
         /\ cached' = cached )
C2_LaterAccessIsCached == [][\A t \in Threads : C2_Step(t)]_vars

\* The cached bytes are being returned although the file has meanwhile been
\* replaced by a directory.
C2_Witness ==
    \E t \in Threads :
        /\ pc[t] = "hit"
        /\ call[t] = [id |-> MainId, kind |-> "file"]
        /\ Unwrap(ret[t]).ok
        /\ fs.kind = "dir"

\* C3 as stated: with no filesystem mutation since the pass began, all the
\* resolutions of one FileId, through World::source and World::file taken
\* together, perform one read in total.
C3_OneReadPerIdentifier ==
    ~dirty =>
        \A id \in Ids : loads[Cell(id, "source")] + loads[Cell(id, "file")] <= 1

\* C3 as amended: with no filesystem mutation since the pass began, every
\* call that returns has its cell read exactly once (one read for the source
\* view, one for the byte view, at most two for the FileId) and returns what
\* the first call through the same accessor returned.
C3_OneReadPerCell ==
    \A t \in Threads :
        (Returning(t) /\ ~dirty) =>
            /\ loads[Key(t)] = 1
            /\ ret[t] = first[Key(t)]
            /\ loads[Cell(call[t].id, "source")] + loads[Cell(call[t].id, "file")] <= 2

\* A repeated call returns while both views of its FileId have been read
\* once each and the file is untouched.
C3_Witness ==
    \E t \in Threads :
        /\ pc[t] = "hit"
        /\ ~dirty
        /\ loads[Cell(call[t].id, "source")] = 1
        /\ loads[Cell(call[t].id, "file")] = 1

C4_Step ==
    /\ (pass' # pass => slots' = EmptyMap)
    /\ \A id \in DOMAIN slots \cap DOMAIN slots' : \A k \in Kinds :
           slots[id][k].accessed => slots'[id][k].accessed
    /\ \A t \in Threads :
           (pc[t] = "check" /\ pc'[t] # "check" /\ ~IsSome(first[Key(t)]))
           => (pc'[t] = "load" /\ ~IsSome(CellOf(t).data))
Expected(kind, f) ==
    LET r == read_from_disk(f, {}, MainPath)
    IN IF r.ok THEN DeriveF(kind, r.val, None) ELSE r

\* C5: a resolution in a pass returns the file as it is on disk in that
\* pass, never a value cached by an earlier pass: while the file has not
\* changed since the pass began, what is returned is the current content.
C5_PassSeesCurrentBytes ==
    \A t \in Threads :
        (Returning(t) /\ call[t].id = MainId /\ ~dirty)
        => ret[t] = Some(Expected(call[t].kind, fs))

\* The second pass returns bytes that differ from those the first pass
\* returned for the same file.
C5_Witness ==
    \E t \in Threads :
        /\ pass = 2
        /\ ~dirty
        /\ Returning(t)
        /\ call[t] = [id |-> MainId, kind |-> "file"]
        /\ IsSome(lastPass)
        /\ Unwrap(lastPass).ok
        /\ Unwrap(ret[t]).ok
        /\ ret[t] # lastPass

\* The step of get_or_init that follows the read, taken by thread t.
AfterRead(t) == pc[t] = "derive" /\ pc'[t] # "derive"
Derived(t) == derives'[Key(t)] = derives[Key(t)] + 1
NewOrChanged(t) ==
    \/ ~IsSome(CellOf(t).data)
    \/ hash128(Unwrap(result[t])) # CellOf(t).fingerprint

\* C6 as stated: after a read, f is invoked if and only if the cell holds no
\* previous data or the fingerprint of what was read differs from the stored
\* one.
C6_DeriveIffNewOrChanged ==
    [][\A t \in Threads : AfterRead(t) => (Derived(t) <=> NewOrChanged(t))]_vars

\* C6 as amended: after a read, f is invoked if and only if the read
\* succeeded and the cell holds no previous data or the fingerprint differs;
\* a failed read is stored and returned as it is, an unchanged fingerprint
\* over stored data returns that data, and the stored fingerprint is the
\* hash of the read result alone.
C6_Step(t) ==
    AfterRead(t) =>
        /\ Derived(t) <=> (Unwrap(result[t]).ok /\ NewOrChanged(t))
        /\ slots'[call[t].id][call[t].kind].fingerprint = hash128(Unwrap(result[t]))
        /\ (~Unwrap(result[t]).ok /\ NewOrChanged(t)) => ret'[t] = result[t]
        /\ ~NewOrChanged(t) => ret'[t] = CellOf(t).data
C6_DeriveIffReadOkAndNewOrChanged == [][\A t \in Threads : C6_Step(t)]_vars

\* A first access whose read failed has returned the error, f not invoked.
C6_Witness ==
    \E t \in Threads :
        /\ pc[t] = "unlock"
        /\ loads[Key(t)] = 1
        /\ derives[Key(t)] = 0
        /\ ~Unwrap(ret[t]).ok

\* C7: under any interleaving of the threads' World::source and World::file
\* calls, an inserted slot is never removed or replaced (its cells keep their
\* flag and data), each slot is the one of its FileId, at most one thread is
\* inside a cell, and no cell is read or derived twice.
C7_Inv ==
    /\ \A id \in DOMAIN slots : slots[id].id = id
    /\ Cardinality({t \in Threads : pc[t] \in InSection}) <= 1
    /\ \A c \in Cells : loads[c] <= 1 /\ derives[c] <= 1
C7_Step ==
    (world /\ pass' = pass) =>
        \A id \in DOMAIN slots :
            /\ id \in DOMAIN slots'
            /\ \A k \in Kinds :
                 /\ slots[id][k].accessed => slots'[id][k].accessed
                 /\ IsSome(slots[id][k].data) => slots'[id][k].data = slots[id][k].data
C7_SlotsUnderRaces == []C7_Inv /\ [][C7_Step]_vars

\* Two threads race for the same uninitialised cell: one is reading, the
\* other waits for the map.
C7_Witness ==
    \E t, u \in Threads :
        /\ t # u
        /\ pc[t] = "load"
        /\ pc[u] = "lock"
        /\ call[u] = call[t]
        /\ ~IsSome(CellOf(t).data)

\* C8 as stated: the mutex of the slot map is held for the lookup-or-insert
\* only and is released before the read, the package download and the
\* decoding.
C8_LockReleasedBeforeIO ==
    \A t \in Threads : pc[t] \in {"load", "derive"} => holder # t

\* C8 as amended: the mutex is held from the lookup-or-insert until the call
\* returns, the read, the package download and the decoding included, so
\* while one thread is inside a call every other thread is outside or waits
\* for the map, whatever FileId it asks for.
C8_LockHeldThroughIO ==
    \A t \in Threads :
        pc[t] \in InSection =>
            /\ holder = t
            /\ \A u \in Threads \ {t} : pc[u] \in {"idle", "lock"}

\* A thread downloads or reads a package file under the mutex while another
\* waits for the map with an unrelated identifier.
C8_Witness ==
    \E t, u \in Threads :
        /\ pc[t] = "load"
        /\ call[t].id = PkgFileId
        /\ holder = t
        /\ pc[u] = "lock"
        /\ call[u].id = MainId

\* The virtual path leaves its root: at some component the ".." seen so far
\* outnumber the named components.
Escapes(vpath) ==
    \E n \in 1..Len(vpath) :
        Cardinality({i \in 1..n : vpath[i] = ".."})
            > Cardinality({i \in 1..n : vpath[i] # ".."})
RootOf(id) == IF id.pkg = NoPkg THEN ProjectRoot ELSE PkgDir(id.pkg)
Within(path, root) ==
    /\ Len(path) >= Len(root)
    /\ SubSeq(path, 1, Len(root)) = root
    /\ \A i \in 1..Len(path) : path[i] # ".."

\* C9 as stated: every identifier whose virtual path escapes its root
\* resolves to AccessDenied.
C9_EscapeIsAccessDenied ==
    \A t \in Threads :
        (pc[t] = "unlock" /\ Escapes(call[t].id.vpath))
        => Unwrap(ret[t]).err = "AccessDenied"

\* C9 as amended: an identifier whose virtual path escapes its root resolves
\* to AccessDenied, or to the package error when its package cannot be
\* prepared; in both cases no file is read for it, and every path that is
\* read lies under the root of its identifier.
C9_EscapeNeverRead ==
    /\ \A c \in Cells :
         /\ \A p \in diskReads[c] : Within(p, RootOf(c[1]))
         /\ Escapes(c[1].vpath) => diskReads[c] = {}
    /\ \A t \in Threads :
         (pc[t] = "unlock" /\ Escapes(call[t].id.vpath))
         => /\ ~Unwrap(ret[t]).ok
            /\ \/ Unwrap(ret[t]).err = "AccessDenied"
               \/ /\ Unwrap(ret[t]).err = "Package"
                  /\ call[t].id.pkg # NoPkg
                  /\ call[t].id.pkg \notin cached

\* An escaping path inside a downloaded package has been denied.
C9_Witness ==
    \E t \in Threads :
        /\ pc[t] = "unlock"
        /\ call[t].id = PkgEscId
        /\ GoodPkg \in cached
        /\ Unwrap(ret[t]).err = "AccessDenied"
        /\ diskReads[Key(t)] = {}

\* C10: the read of a resolved path gives IsDirectory for a directory,
\* NotFound for a missing path, an error carrying the path for any other OS
\* failure, and the bytes of a readable file; the three errors differ from
\* each other and carry no bytes.
C10_Step(t) ==
    ( /\ pc[t] = "load"
      /\ pc'[t] = "derive"
      /\ ~Escapes(call[t].id.vpath)
      /\ (call[t].id.pkg = NoPkg \/ call[t].id.pkg \in cached') )
    => LET path == RootOf(call[t].id) \o call[t].id.vpath
           node == NodeAt(fs, cached', path)
           r == Unwrap(result'[t])
       IN /\ node.kind = "dir" => (~r.ok /\ r.err = "IsDirectory")
          /\ node.kind = "absent" => (~r.ok /\ r.err = "NotFound" /\ r.path = path)
          /\ node.kind = "denied" => (~r.ok /\ r.err = "Io" /\ r.path = path)
          /\ node.kind = "file" => (r.ok /\ r.val = node.bytes)
          /\ ~r.ok => r.val = <<>>
          /\ diskReads'[Key(t)] = {path}
Reads(t) == pc[t] = "load" /\ pc'[t] = "derive"

\* C11: a resolution calls prepare_package if and only if its FileId carries
\* a package specification; a FileId without one is resolved against the
\* project root (what is read lies under it) and neither changes the package
\* cache nor starts a download; a FileId with one is read under the
\* directory of its package.
C11_Step(t) ==
    Reads(t) =>
        LET id == call[t].id
            k == Key(t)
        IN /\ prepares'[k] = prepares[k] + (IF id.pkg # NoPkg THEN 1 ELSE 0)
           /\ id.pkg = NoPkg =>
                /\ cached' = cached
                /\ downloads' = downloads
                /\ \A q \in diskReads'[k] : Within(q, ProjectRoot)
                /\ ~Escapes(id.vpath) => diskReads'[k] = {ProjectRoot \o id.vpath}
           /\ id.pkg # NoPkg =>
                \A q \in diskReads'[k] : Within(q, PkgDir(id.pkg))
C11_PrepareIffPackage == [][\A t \in Threads : C11_Step(t)]_vars

\* A file of a package has been read from the package directory after one
\* call of prepare_package.
C11_Witness ==
    \E t \in Threads :
        /\ pc[t] = "derive"
        /\ call[t].id = PkgFileId
        /\ prepares[Key(t)] = 1
        /\ diskReads[Key(t)] = {PkgDir(GoodPkg) \o <<"a">>}

\* C12 as stated: the first resolution under a package that is not cached
\* downloads once and every later resolution under that package downloads
\* nothing, so a world never starts a second download of a package.
C12_ExactlyOneDownload ==
    \A p \in Pkgs : downloads[p] <= 1

\* C12 as amended: a resolution under a package that is not cached starts
\* exactly one download; once a download has succeeded the package stays
\* cached and no later resolution under it, of another file or of the other
\* cell, downloads again (in this world or a later one); a failed download
\* is not remembered. Nothing but a resolution downloads.
C12_Step ==
    /\ cached \subseteq cached'
    /\ \A p \in Pkgs :
         /\ p \in cached => downloads'[p] \in {downloads[p], 0}
         /\ (p \notin cached /\ p \in cached') => downloads'[p] = downloads[p] + 1
    /\ \A t \in Threads :
         (Reads(t) /\ call[t].id.pkg # NoPkg) =>
             downloads'[call[t].id.pkg] =
                 downloads[call[t].id.pkg]
                     + (IF call[t].id.pkg \in cached THEN 0 ELSE 1)
    /\ (\A t \in Threads : ~Reads(t)) =>
         \A p \in Pkgs : downloads'[p] \in {downloads[p], 0}
C12_DownloadOnlyWhileNotCached == [][C12_Step]_vars

\* Two files of one package have been resolved in this world with a single
\* download, the second one from the cache.
C12_Witness ==
    \E t \in Threads :
        /\ pc[t] = "derive"
        /\ call[t].id = PkgEscId
        /\ loads[Cell(PkgFileId, "source")] = 1
        /\ loads[Cell(PkgFileId, "file")] = 1
        /\ GoodPkg \in cached
        /\ downloads[GoodPkg] = 1

\* Some cell of the world holds the error of a failed prepare_package(q).
PkgFailed(q) ==
    \E id \in DOMAIN slots, k \in Kinds :
        /\ id.pkg = q
        /\ IsSome(slots[id][k].data)
        /\ Unwrap(slots[id][k].data).err = "Package"

\* C13: while a package cannot be prepared, every World::source and
\* World::file call for a FileId under it returns the package error, which
\* carries no bytes, and nothing is read for it; the failing resolution
\* changes neither the cache nor any slot, and in a world that holds such an
\* error a FileId outside that package still reads the file it names.
C13_Inv ==
    \A t \in Threads :
        (Returning(t) /\ call[t].id.pkg # NoPkg /\ call[t].id.pkg \notin cached)
        => /\ ~Unwrap(ret[t]).ok
           /\ Unwrap(ret[t]).err = "Package"
           /\ Unwrap(ret[t]).pkg = call[t].id.pkg
           /\ Unwrap(ret[t]).val = <<>>
           /\ diskReads[Key(t)] = {}
C13_Step(t) ==
    Reads(t) =>
        LET id == call[t].id
            r == Unwrap(result'[t])
            path == RootOf(id) \o id.vpath
            node == NodeAt(fs, cached', path)
        IN /\ (id.pkg # NoPkg /\ id.pkg \notin cached') =>
                /\ r = Err("Package", <<>>, id.pkg)
                /\ cached' = cached
                /\ slots' = slots
           /\ ( /\ \E q \in Pkgs \ {id.pkg} : PkgFailed(q)
                /\ (id.pkg = NoPkg \/ id.pkg \in cached')
                /\ ~Escapes(id.vpath)
                /\ node.kind = "file" )
              => r = Ok(node.bytes)
C13_PackageFailureIsAnError ==
    []C13_Inv /\ [][\A t \in Threads : C13_Step(t)]_vars

\* A file of a downloaded package is returned in a world in which both
\* views of a file of a package that does not exist hold the package error.
C13_Witness ==
    \E t \in Threads :
        /\ Returning(t)
        /\ call[t].id = PkgFileId
        /\ ret[t] = Some(Ok(BytesLib))
        /\ MissingPkgId \in DOMAIN slots
        /\ slots[MissingPkgId].source.data = Some(Err("Package", <<>>, MissingPkg))
        /\ slots[MissingPkgId].file.data = Some(Err("Package", <<>>, MissingPkg))

Other(kind) == IF kind = "source" THEN "file" ELSE "source"
\* The files of the project that no other process rewrites.
TextIds == {BadId, BomId, Bom2Id, BomBadId}
OnDisk(id) == NodeAt(fs, cached, ProjectRoot \o id.vpath).bytes

\* C14: a step of a World::source call leaves the byte cell of every slot as
\* it is (data, fingerprint, accessed flag), a step of a World::file call the
\* source cell; a slot is inserted with both cells empty; and World::file
\* returns the raw bytes of a file whatever its source cell holds, a UTF-8
\* decoding error included.
C14_Step(t) ==
    (pc'[t] # pc[t] /\ pc[t] # "idle") =>
        LET k == Other(call[t].kind) IN
        /\ \A id \in DOMAIN slots :
              id \in DOMAIN slots' /\ slots'[id][k] = slots[id][k]
        /\ \A id \in DOMAIN slots' \ DOMAIN slots :
              slots'[id] = FileSlotNew(id)
C14_Inv ==
    \A t \in Threads :
        (Returning(t) /\ call[t].kind = "file" /\ call[t].id \in TextIds)
        => ret[t] = Some(Ok(OnDisk(call[t].id)))
C14_CellsIndependent ==
    []C14_Inv /\ [][\A t \in Threads : C14_Step(t)]_vars

\* World::file returns the raw bytes of a file whose source cell holds the
\* decoding error.
C14_Witness ==
    \E t \in Threads :
        /\ Returning(t)
        /\ call[t] = [id |-> BadId, kind |-> "file"]
        /\ ret[t] = Some(Ok(BytesBad))
        /\ slots[BadId].source.data = Some(Err("InvalidUtf8", <<>>, ""))
        /\ slots[BadId].source.accessed

HasBom(b) == Len(b) >= 3 /\ SubSeq(b, 1, 3) = Bom
StripOne(b) == IF HasBom(b) THEN SubSeq(b, 4, Len(b)) ELSE b

\* C15: the text World::source returns is the bytes that were read without
\* their first byte-order mark, and only that one (a second mark stays in
\* the text); when what is left is not valid UTF-8 the call returns the
\* InvalidUtf8 error, which is none of NotFound, IsDirectory, AccessDenied
\* and carries no text: never a text that differs from the bytes read.
C15_Step(t) ==
    (AfterRead(t) /\ call[t].kind = "source" /\ Unwrap(result[t]).ok) =>
        LET b == Unwrap(result[t]).val
            r == Unwrap(ret'[t])
        IN /\ r.ok => (r.val = StripOne(b) /\ Utf8Valid(r.val))
           /\ ~r.ok => /\ ~Utf8Valid(StripOne(b))
                       /\ r.err = "InvalidUtf8"
                       /\ r.err \notin {"NotFound", "IsDirectory", "AccessDenied"}
                       /\ r.val = <<>>
C15_Inv ==
    \A t \in Threads :
        (Returning(t) /\ call[t].kind = "source") =>
            /\ call[t].id = BomId => ret[t] = Some(Ok(<<104>>))
            /\ call[t].id = Bom2Id => ret[t] = Some(Ok(Bom \o <<104>>))
            /\ call[t].id \in {BadId, BomBadId}
                 => ret[t] = Some(Err("InvalidUtf8", <<>>, ""))
C15_Utf8OrError ==
    []C15_Inv /\ [][\A t \in Threads : C15_Step(t)]_vars

\* The source of a file that starts with a byte-order mark and ends inside
\* a character is the decoding error.
C15_Witness ==
    \E t \in Threads :
        /\ pc[t] = "unlock"
        /\ call[t] = [id |-> BomBadId, kind |-> "source"]
        /\ ret[t] = Some(Err("InvalidUtf8", <<>>, ""))
        /\ diskReads[Key(t)] = {BomBadPath}

PrevOk == IsSome(sold) /\ Unwrap(sold).ok

\* C16: when the source cell is derived again over a previous value that
\* was a parsed Source and the new bytes decode, the cell holds that same
\* Source object (same allocation, same FileId) with the new text and no
\* Source is allocated; a new Source is allocated only when the cell held
\* no value or an error.
C16_ReplacedInPlace ==
    (sdone /\ Unwrap(scell).ok) =>
        LET new == Unwrap(scell).val IN
        /\ new.text = StripOne(sread.val)
        /\ new.id = MainId
        /\ PrevOk => (new.obj = Unwrap(sold).val.obj /\ snext = 2)
        /\ ~PrevOk => (new.obj = 2 /\ snext = 3)

\* A cell that held a parsed Source holds the same object with another
\* text.
C16_Witness ==
    /\ sdone
    /\ PrevOk
    /\ Unwrap(scell).ok
    /\ Unwrap(scell).val.obj = 1
    /\ Unwrap(scell).val.text # Unwrap(sold).val.text
    /\ snext = 2

\* C17: a world reads the clock at most once, at its first World::today
\* call; the stored instant never changes while the world lives; every
\* call, of any thread and with any offset, returns the date computed from
\* that instant, which is the value the first call with the same offset
\* returned, however far the clock has moved on.
C17_Inv ==
    /\ captures <= 1
    /\ IsSome(now) <=> captures = 1
    /\ \A t \in Threads :
         tpc[t] = "done" =>
             /\ tret[t] = Some(Today(Unwrap(now), targ[t]))
             /\ tret[t] = dates[targ[t]]
    /\ \A t, u \in Threads :
         (tpc[t] = "done" /\ tpc[u] = "done" /\ targ[t] = targ[u])
         => tret[t] = tret[u]
C17_Step ==
    (IsSome(now) /\ pass' = pass /\ world') => now' = now
C17_OneInstantPerWorld == []C17_Inv /\ [][C17_Step]_vars

\* Two threads hold the same date for the same offset, the date of the
\* captured instant, while the clock already shows the next day.
C17_Witness ==
    \E t, u \in Threads :
        /\ t # u
        /\ tpc[t] = "done"
        /\ tpc[u] = "done"
        /\ targ[t] = Some(0)
        /\ targ[u] = Some(0)
        /\ tret[t] = Some(Date(StartClock))
        /\ tret[u] = tret[t]
        /\ Date(clock) # Date(StartClock)

Slots == 1..Len(fonts)
\* What a slot would load from its file as the file is now.
LoadsNow(h) ==
    FontNew(FontFsRead(fonts[h].path), fonts[h].index, fonts[h].path)

\* C18: FontSlot::get reads and decodes the file of a slot at most once in
\* the life of the catalog; a filled cell never changes, and every call
\* returns what the first call returned, a font or None, whatever has
\* happened to the font file since.
C18_Inv ==
    /\ \A h \in Handles : freads[h] <= 1
    /\ \A h \in Slots : IsSome(ffirst[h]) => fonts[h].font = ffirst[h]
    /\ IsSome(fret) =>
         Unwrap(fret).value = Unwrap(ffirst[Unwrap(fret).slot])
C18_Step ==
    \A h \in Slots :
        IsSome(fonts[h].font) =>
            /\ h <= Len(fonts')
            /\ fonts'[h].font = fonts[h].font
            /\ freads'[h] = freads[h]
C18_FontLoadedOnce == []C18_Inv /\ [][C18_Step]_vars

\* A later call returns the failure of the first call although the font
\* file is back and would decode now.
C18_Witness ==
    /\ IsSome(fret)
    /\ Unwrap(fret).hit
    /\ Unwrap(fret).value = None
    /\ freads[Unwrap(fret).slot] = 1
    /\ IsSome(LoadsNow(Unwrap(fret).slot))

IsEmbedded(slot) == slot.path = EmptyPath

\* C19: the slot of an embedded font holds that font from its creation on:
\* the slots without a path hold, in order, the embedded fonts; no call of
\* FontSlot::get on them reads a file, and each returns the embedded font.
C19_EmbeddedResolved ==
    /\ LET es == SelectSeq(fonts, IsEmbedded) IN
         \A k \in 1..Len(es) :
             es[k].font = Some(Some(Font(EmbeddedFonts[k].family, EmptyPath)))
    /\ \A h \in Slots : IsEmbedded(fonts[h]) => freads[h] = 0
    /\ (IsSome(fret) /\ IsEmbedded(fonts[Unwrap(fret).slot])) =>
         /\ Unwrap(fret).hit
         /\ IsSome(Unwrap(fret).value)
         /\ Unwrap(Unwrap(fret).value).origin = EmptyPath
         /\ Unwrap(Unwrap(fret).value).info = book[Unwrap(fret).slot]

\* World::font has returned the first embedded font without any read.
C19_Witness ==
    /\ IsSome(fret)
    /\ IsEmbedded(fonts[Unwrap(fret).slot])
    /\ Unwrap(fret).value = Some(Font("E", EmptyPath))
    /\ freads[Unwrap(fret).slot] = 0
    /\ \E h \in Slots : freads[h] = 1

\* C20 as stated: at every point the book and the slot list have the same
\* length, every handle of the book indexes a slot, and the font a slot has
\* loaded is the face its book entry describes.
C20_BookDescribesLoaded ==
    /\ Len(book) = Len(fonts)
    /\ fphase # "oob"
    /\ \A h \in Slots :
         (IsSome(fonts[h].font) /\ IsSome(Unwrap(fonts[h].font)))
         => Unwrap(Unwrap(fonts[h].font)).info = book[h]

\* C20 as amended: at every point of the construction and afterwards the
\* book and the slot list have the same length and keep their entries, no
\* World::font call with a handle of the book is out of bounds, and the
\* i-th book entry describes the face that was at the path and index of the
\* i-th slot when the entry was made (the font itself for an embedded
\* slot); a slot loads the face that is there at its first load, the one
\* its book entry describes whenever the file still holds it.
C20_Inv ==
    /\ Len(book) = Len(fonts)
    /\ fphase # "oob"
    /\ \A h \in Slots :
         IsEmbedded(fonts[h]) =>
             Unwrap(Unwrap(fonts[h].font)).info = book[h]
C20_Step ==
    /\ \A h \in Slots :
         /\ h <= Len(fonts')
         /\ h <= Len(book')
         /\ book'[h] = book[h]
         /\ fonts'[h].path = fonts[h].path
         /\ fonts'[h].index = fonts[h].index
         /\ freads'[h] = freads[h] + 1 =>
              /\ fonts'[h].font = Some(LoadsNow(h))
              /\ FontInfoNew(FontFsRead(fonts[h].path), fonts[h].index) = Some(book[h])
                   => fonts'[h].font = Some(Some(Font(book[h].family, fonts[h].path)))
    /\ (fphase = "faces" /\ Len(fonts') = Len(fonts) + 1) =>
         LET slot == fonts'[Len(fonts')] IN
         /\ slot.font = None
         /\ Some(book'[Len(fonts')])
              = FontInfoNew(FontFsRead(slot.path), slot.index)
C20_BookAndSlotsAligned == []C20_Inv /\ [][C20_Step]_vars

\* The second face of a collection whose first face was skipped has been
\* loaded through the handle of its book entry.
C20_Witness ==
    /\ fphase = "ready"
    /\ Len(book) = 4
    /\ fonts[2].path = "f2"
    /\ fonts[2].index = 1
    /\ book[2] = FontInfo("B")
    /\ fret = Some([slot |-> 2, value |-> Some(Font("B", "f2")), hit |-> FALSE])

\* C21: FontSearcher::search never panics, whatever happens to the font
\* directories and files: a face that cannot be read is left out of the book
\* and of the slots, and the search goes on.
C21_SearchNeverPanics == fphase # "panic"

Locator(slot) == [path |-> slot.path, index |-> slot.index]
FileSlots == {h \in Slots : ~IsEmbedded(fonts[h])}
\* The faces of the scan that the loop has visited.
Visited ==
    IF fphase = "faces" THEN {faces[n] : n \in 1..(fpos - 1)}
    ELSE {faces[n] : n \in 1..Len(faces)}

\* C22 as stated: when the loop over the faces is over, every font file has
\* as many slots as the scan found faces in it, one per face and tagged
\* with the index of the face.
C22_SlotPerFace ==
    fphase = "embedded" =>
        \A n \in 1..Len(faces) :
            \E h \in FileSlots : Locator(fonts[h]) = faces[n]

\* C22 as amended: a font file gets one slot for each of its faces whose
\* metadata can be read when the loop visits it, and none for the others;
\* a slot carries the path and the collection index of its face, no two
\* slots carry the same; a step fills the cell of at most one slot, with
\* what that slot's own face decodes to, None if it does not, and leaves
\* every other cell as it was.
C22_Inv ==
    /\ \A h, g \in FileSlots : Locator(fonts[h]) = Locator(fonts[g]) => h = g
    /\ fphase \in {"faces", "embedded"} =>
         \A h \in FileSlots : Locator(fonts[h]) \in Visited
C22_Step ==
    /\ (fphase = "faces" /\ fpos' = fpos + 1) =>
         LET face == faces[fpos] IN
         IF IsSome(FontInfoNew(FontFsRead(face.path), face.index))
         THEN fonts' = Append(fonts, FontSlot(face.path, face.index, None))
         ELSE fonts' = fonts
    /\ \A h \in Slots :
         (h <= Len(fonts') /\ fonts'[h].font # fonts[h].font) =>
             /\ fonts'[h].font = Some(LoadsNow(h))
             /\ \A g \in Slots \ {h} : fonts'[g] = fonts[g]
C22_SlotPerReadableFace == []C22_Inv /\ [][C22_Step]_vars

\* Both faces of a collection have a slot; the file has changed, the first
\* slot has cached None, and the second has loaded its font afterwards.
C22_Witness ==
    /\ fphase = "ready"
    /\ \E h, g \in FileSlots :
         /\ fonts[h].path = fonts[g].path
         /\ fonts[h].index = 0
         /\ fonts[g].index = 1
         /\ fonts[h].font = Some(None)
         /\ fonts[g].font = Some(Some(Font("B", fonts[g].path)))
         /\ fret = Some([slot |-> g, value |-> Some(Font("B", fonts[g].path)),
                         hit |-> FALSE])

\* C23: two catalogs built over the same font directory with the same file
\* contents have the same slots, path and collection index, at every
\* position.
C23_SameFilesSameSlots ==
    (fphase = "ready" /\ IsSome(fprev) /\ Unwrap(fprev).files = ffs) =>
        [h \in DOMAIN fonts |-> Locator(fonts[h])] = Unwrap(fprev).slots

\* C24: SystemWorld::new fails with InputNotFound when the entry file does
\* not exist as it is resolved, with RootNotFound when the directory of the
\* resolved entry file cannot be found, and with InputOutsideRoot when the
\* resolved entry file does not lie under the root; whenever compile()
\* returns such an error no world was created, the compiler has not run, no
\* output file was written, and the error is a WorldCreationError and none
\* of the FileError kinds the diagnostics carry.
C24_Inv ==
    /\ cpc \in {"input", "root"} =>
         (cworld = None /\ cfile = None /\ cdocument = None)
    /\ (IsSome(cresult) /\ Unwrap(cresult).type = "Diagnostics") =>
         Unwrap(cresult).kind \notin WorldCreationErrors
C24_Step ==
    LET input == cparams.input
        missing == \/ input = GonePath
                   \/ /\ input \in {MainPath, LinkPath}
                      /\ (~cfs.dir \/ cfs.entry.kind = "absent")
        failed(kind) == cresult' = Some(RErr("WorldCreationError", kind))
    IN /\ (cpc = "input" /\ cpc' # "input" /\ missing) => failed("InputNotFound")
       /\ (cpc = "root" /\ cpc' # "root" /\ Unwrap(ccanon) = MainPath /\ ~cfs.dir)
            => failed("RootNotFound")
       /\ (cpc = "root" /\ cpc' # "root" /\ Unwrap(ccanon) = FsRoot)
            => failed("InputOutsideRoot")
       /\ (cresult = None /\ IsSome(cresult')
             /\ Unwrap(cresult').type = "WorldCreationError") =>
            /\ cpc \in {"input", "root"}
            /\ Unwrap(cresult').kind \in WorldCreationErrors
            /\ ~Unwrap(cresult').ok
            /\ cworld' = None
            /\ cdocument' = None
            /\ cout' = cout
C24_CreationErrors == []C24_Inv /\ [][C24_Step]_vars

\* The directory of the entry file was removed after the entry file was
\* resolved: compile() has returned RootNotFound and written nothing.
C24_Witness ==
    /\ cpc = "idle"
    /\ cresult = Some(RErr("WorldCreationError", "RootNotFound"))
    /\ ~cfs.dir
    /\ \A k \in OutKeys : cout[k] = NoOut

\* C25: the root of a world is the directory of the resolved entry file and
\* World::main is the identifier without package of the entry file relative
\* to that root; the first World::file(main) of a new world returns exactly
\* the bytes the entry file has on disk.
C25_Inv ==
    IsSome(cworld) =>
        LET w == Unwrap(cworld)
            input == Unwrap(ccanon)
        IN /\ IsSome(ccanon)
           /\ cparams.input \in {MainPath, LinkPath}
           /\ input = MainPath
           /\ input # <<>>
           /\ w.root = SubSeq(input, 1, Len(input) - 1)
           /\ w.main.pkg = NoPkg
           /\ w.main.vpath = <<input[Len(input)]>>
           /\ w.main = MainId
C25_Step ==
    (cpc = "world" /\ cfile = None /\ cfile' # None
       /\ cfs.dir /\ cfs.entry.kind = "file")
      => cfile' = Some(Ok(cfs.entry.bytes))
C26_SameOutputTwice ==
    [][(cpc # "idle" /\ cpc' = "idle" /\ IsSome(cprev) /\ Unwrap(cprev).result.ok)
         => (cresult' = Some(ROk) /\ cout' = cout)]_vars

\* C26 as amended: nothing of a world outlives its compile(); a call that
\* follows another with the same parameters and no input file changed since
\* returns what the first returned, and when the first succeeded and the
\* document saw the same date in both, or asked for none, the second leaves
\* every output file as the first left it.
C26_Inv ==
    cpc = "idle" =>
        (ccanon = None /\ cworld = None /\ cfile = None /\ cdocument = None)
C26_Step ==
    (cpc # "idle" /\ cpc' = "idle" /\ IsSome(cprev)) =>
        /\ cresult' = Some(Unwrap(cprev).result)
        /\ IsSome(cprev')
        /\ (Unwrap(cprev).result.ok /\ Unwrap(cprev').date = Unwrap(cprev).date)
             => cout' = cout
C26_SameOutputSameDay == []C26_Inv /\ [][C26_Step]_vars

\* A document that shows today's date has been compiled twice in a row on
\* the same day, and the PDF of the second call is the PDF of the first.
C26_Witness ==
    /\ cpc = "idle"
    /\ IsSome(cprev)
    /\ Unwrap(cprev).again
    /\ cresult = Some(ROk)
    /\ IsSome(Unwrap(cprev).date)
    /\ cout[0] = Pdf(DocOk(BytesToday, Unwrap(cprev).date))

\* C27: the format of every file compile() writes follows from the
\* extension of the output path: PNG for png in any case, PDF for pdf, and
\* no file in either format for any other extension.
C27_FormatByExtension ==
    \A k \in OutKeys :
        cout[k].format # "none" =>
            LET ext == cparams.output.ext IN
            IF IsSome(ext) /\ EqIgnoreAsciiCase(Unwrap(ext), ExtPng)
            THEN cout[k].format = "png"
            ELSE IF IsSome(ext) /\ EqIgnoreAsciiCase(Unwrap(ext), ExtPdf)
            THEN cout[k].format = "pdf"
            ELSE FALSE

\* C28: set_permission never updates a PDF in place: when the input and the
\* output designate the same file it returns the error of the check without
\* opening the input and without writing the output; when they designate
\* different files the input file is left as it was.
C28_NeverInPlace ==
    ppc = "done" =>
        IF Designates(pin) = Designates(pout)
        THEN /\ presult = Some(PermErr("in-place update is not possible"))
             /\ popened = {}
             /\ pfs = pfs0
        ELSE pfs[Designates(pin)] = pfs0[Designates(pin)]

\* C29: update_metadata overwrites and never merges: afterwards the Info
\* dictionary holds the entries made of the PdfMetadata and nothing else
\* (Title, Subject, Author, Producer and Creator from application, the two
\* dates, Keywords joined with ", ", and the custom properties), the content
\* of the XMP stream is the generated packet and no property of the old one,
\* and the PDF/UA part number of the original packet, if it had one, is the
\* part number of the new one.
C29_OverwritesKeepsPart ==
    (mpc = "done" /\ mresult = Some(PermOk)) =>
        LET info == Unwrap(mdoc.info)
            custom == mmeta.custom_properties
            old == mdoc0.content.part
            had == /\ mdoc0.metadata = "stream"
                   /\ old.form # "none"
                   /\ IsSome(ParseI32(Trim(old.text)))
        IN /\ IsSome(mdoc.info)
           /\ DOMAIN info = {"Title", "Subject", "Author", "Producer", "Creator",
                             "CreationDate", "ModDate", "Keywords"}
                               \cup DOMAIN custom
           /\ \A k \in DOMAIN custom : info[k] = custom[k]
           /\ \A k \in {"Producer", "Creator"} \ DOMAIN custom :
                  info[k] = Text(mmeta.application)
           /\ "Title" \notin DOMAIN custom => info["Title"] = Text(mmeta.title)
           /\ info["Subject"] = Text(mmeta.subject)
           /\ info["Author"] = Text(mmeta.author)
           /\ info["Keywords"] = Join(mmeta.keywords)
           /\ info["CreationDate"] = info["ModDate"]
           /\ mdoc.metadata = "stream"
           /\ "dc:source" \notin DOMAIN mdoc.content.props
           /\ mdoc.content.props["dc:title"] = Text(mmeta.title)
           /\ "Filter" \notin mdoc.keys
           /\ IF had
              THEN mdoc.content.part
                     = ElementPart(FormatI32(Unwrap(ParseI32(Trim(old.text)))))
              ELSE mdoc.content.part = NoPart

\* C30: an event of kind Modify(Data(Content)) with a path whose extension
\* is one of the listed ones, whatever its case, makes the callback call
\* compile() exactly once and then changed.notify_one() exactly once; an
\* event of another kind, or whose paths all have other extensions or none,
\* makes it call neither.
C30_Inv ==
    IsSome(wevent) =>
        LET event == Unwrap(wevent)
            qualifies ==
                /\ event.kind = ContentChange
                /\ \E n \in 1..Len(event.paths) :
                     /\ IsSome(event.paths[n])
                     /\ \E e \in EXTENSIONS :
                          /\ Len(e) = Len(Unwrap(event.paths[n]))
                          /\ \A i \in 1..Len(e) :
                               \/ Unwrap(event.paths[n])[i] = e[i]
                               \/ \E c \in 1..Len(Lower) :
                                    /\ Lower[c] = e[i]
                                    /\ Upper[c] = Unwrap(event.paths[n])[i]
        IN /\ wnotifies <= wcompiles
           /\ wcompiles <= 1
           /\ ~qualifies => (wcompiles = 0 /\ wnotifies = 0 /\ wpc \in {"called", "idle"})
           /\ (qualifies /\ wpc = "idle") => (wcompiles = 1 /\ wnotifies = 1)
           /\ wpc = "notify" => (wcompiles = 1 /\ wnotifies = 0)
           /\ wpc = "compile" => wcompiles = 0
C30_Step ==
    /\ wcompiles' > wcompiles => (wpc = "compile" /\ wnotifies' = wnotifies)
    /\ wnotifies' > wnotifies => (wpc = "notify" /\ wcompiles' = wcompiles /\ wpermit')
C30_Live == (wpc = "called") ~> (wpc = "idle")
DirOf(path) == CHOOSE i \in 1..Len(fpaths) : path \in fpaths[i]
\* The faces of family x that the sources hold: in the files of the
\* directories scanned, and among the embedded fonts.
FacesOfFamily(x) ==
    {<<forder[n], k - 1>> : n \in 1..Len(forder), k \in 1..2}
        \cap {<<q, i>> \in (DOMAIN ffs) \X (0..1) :
                 /\ i + 1 <= Len(ffs[q].faces)
                 /\ ffs[q].faces[i + 1] = x}
EmbeddedOfFamily(x) ==
    {n \in 1..Len(EmbeddedFonts) : EmbeddedFonts[n].family = x}

\* C33: in the catalog that search leaves, the slots of the files of
\* font_paths[i] all come before the slots of the files of font_paths[j]
\* for i < j, every slot of a file comes before every embedded slot, the
\* embedded fonts all have their slot, with font_paths empty too, and a
\* family has as many slots as the sources hold faces of it: a face of a
\* family that an earlier source has already given is neither merged into
\* the earlier entry nor replaces it.
C33_PriorityOrderKeepsAll ==
    fphase = "ready" =>
        /\ Len(book) = Len(fonts)
        /\ \A h, g \in FileSlots :
             DirOf(fonts[h].path) < DirOf(fonts[g].path) => h < g
        /\ \A h \in FileSlots : \A g \in Slots \ FileSlots : h < g
        /\ \A n \in 1..Len(EmbeddedFonts) :
             LET h == Len(fonts) - Len(EmbeddedFonts) + n
             IN /\ IsEmbedded(fonts[h])
                /\ fonts[h].index = EmbeddedFonts[n].i
                /\ book[h] = FontInfo(EmbeddedFonts[n].family)
        /\ \A x \in {"A", "B", "E", "F"} :
             /\ Cardinality({h \in FileSlots : book[h] = FontInfo(x)})
                  = Cardinality(FacesOfFamily(x))
             /\ Cardinality({h \in Slots \ FileSlots : book[h] = FontInfo(x)})
                  = Cardinality(EmbeddedOfFamily(x))
        /\ \A h \in FileSlots :
             FontInfoNew(ffs[fonts[h].path], fonts[h].index) = Some(book[h])

\* Two directories, the second given first: its collection of E and A comes
\* first, then the A of the other directory, then the embedded E and F.
C33_Witness ==
    /\ fphase = "ready"
    /\ fpaths = <<{"f2"}, {"f1"}>>
    /\ [h \in Slots |-> fonts[h].path] = <<"f2", "f2", "f1", EmptyPath, EmptyPath>>
    /\ [h \in Slots |-> book[h].family] = <<"E", "A", "A", "E", "F">>

\* C34: once the first access of a cell in a pass has returned an error,
\* whether the read failed (NotFound, IsDirectory, AccessDenied, a package
\* error) or the decoding did, every later access of the cell in that pass
\* returns that same error, reads nothing, prepares no package and leaves
\* the cell as it is, also when the file has meanwhile been created or
\* put right.
C34_Step(t) ==
    ( /\ pc[t] = "check"
      /\ pc'[t] # "check"
      /\ IsSome(first[Key(t)])
      /\ ~Unwrap(first[Key(t)]).ok )
    => ( /\ pc'[t] = "hit"
         /\ ret'[t] = first[Key(t)]
         /\ slots'[call[t].id][call[t].kind] = CellOf(t)
         /\ loads' = loads
         /\ prepares' = prepares
         /\ downloads' = downloads
         /\ diskReads' = diskReads
         /\ cached' = cached )
C34_Inv ==
    \A c \in Cells :
        (IsSome(first[c]) /\ ~Unwrap(first[c]).ok) =>
            /\ loads[c] = 1
            /\ c[1] \in DOMAIN slots
            /\ slots[c[1]][c[2]].accessed
            /\ slots[c[1]][c[2]].data = first[c]
C34_FailureIsCached == []C34_Inv /\ [][\A t \in Threads : C34_Step(t)]_vars

\* The error of the first access, NotFound, is being returned again by a
\* later access although the file exists by now.
C34_Witness ==
    \E t \in Threads :
        /\ pc[t] = "hit"
        /\ call[t].id = MainId
        /\ ~Unwrap(ret[t]).ok
        /\ Unwrap(ret[t]).err = "NotFound"
        /\ fs.kind = "file"

\* C35: when a get_or_init call returns, the cell has accessed set and holds
\* data, which is what the call returns; a call that has read leaves as
\* fingerprint the hash of what it read and as data the value derived from
\* that very read (the error itself when the read failed), and a cell that
\* held no data derives also when the hash of the read is 0, the
\* fingerprint a new cell starts with; a cell nobody is working on is
\* either new or accessed and holding data.
C35_Step(t) ==
    LET cell == slots'[call[t].id][call[t].kind]
        res == Unwrap(result[t])
    IN /\ (~Returning(t) /\ pc'[t] \in {"hit", "unlock"}) =>
            /\ cell.accessed
            /\ IsSome(cell.data)
            /\ ret'[t] = cell.data
       /\ (pc[t] = "derive" /\ pc'[t] = "unlock") =>
            /\ cell.fingerprint = hash128(res)
            /\ IF IsSome(CellOf(t).data) /\ CellOf(t).fingerprint = hash128(res)
               THEN cell.data = CellOf(t).data /\ derives' = derives
               ELSE IF res.ok
               THEN /\ cell.data = Some(DeriveF(call[t].kind, res.val, None))
                    /\ derives'[Key(t)] = derives[Key(t)] + 1
               ELSE cell.data = Some(res) /\ derives' = derives
C35_Inv ==
    \A id \in DOMAIN slots : \A kind \in Kinds :
        LET cell == slots[id][kind] IN
        (\A t \in Threads : pc[t] \in InSection => Key(t) # <<id, kind>>) =>
            \/ cell = SlotCellNew
            \/ cell.accessed /\ IsSome(cell.data)
C35_CellAfterReturn == []C35_Inv /\ [][\A t \in Threads : C35_Step(t)]_vars

\* A first access is returning the source it derived from bytes whose hash
\* is 0, the fingerprint of a new cell.
C35_Witness ==
    \E t \in Threads :
        /\ pc[t] = "unlock"
        /\ call[t].kind = "source"
        /\ CellOf(t).fingerprint = 0
        /\ SlotCellNew.fingerprint = 0
        /\ Unwrap(CellOf(t).data).ok
        /\ derives[Key(t)] = 1

\* C36: whatever the interleaving of the threads' World::source,
\* World::file, World::font and World::today calls on one world, every call
\* that was made returns, given that the read and the download it waits
\* for return; a thread never asks for the mutex of the slot map while it
\* holds it, the mutex goes only from free to one thread and back, and a
\* World::today or World::font call never waits for it.
C36_Inv ==
    /\ \A t \in Threads : pc[t] = "lock" => holder # t
    /\ \A t \in Threads : holder = t <=> pc[t] \in InSection
C36_Step ==
    /\ holder' # holder => (holder = NoThread \/ holder' = NoThread)
    /\ \A t \in Threads :
         (tpc[t] = "init" /\ tpc'[t] # "init") => holder' = holder
    /\ fret' # fret => holder' = holder
C36_Live ==
    \A t \in Threads :
        /\ (pc[t] # "idle") ~> (pc[t] = "idle")
        /\ (tpc[t] # "idle") ~> (tpc[t] = "idle")
C36_EveryCallReturns == []C36_Inv /\ [][C36_Step]_vars /\ C36_Live

\* One thread is reading under the mutex, the other waits for the mutex;
\* a font has been loaded and a date been given meanwhile.
C36_Witness ==
    \E t, u \in Threads :
        /\ holder = t
        /\ pc[t] = "load"
        /\ pc[u] = "lock"
        /\ IsSome(fret)
        /\ IsSome(now)

\* C37: in watch() at most one compile() is in progress at any moment, the
\* one of the stdin task and the one of the watcher callback never overlap;
\* the output file is never written by two compilations at once, and
\* /target.pdf never serves it while it is being written.
C37_OneCompileAtATime ==
    /\ ~(vjob.stdin \in {"compiling", "writing"}
           /\ vjob.callback \in {"compiling", "writing"})
    /\ ~(vjob.stdin = "writing" /\ vjob.callback = "writing")
    /\ vserved # "partial"

\* C31: after every recompilation of watch(), by the watcher callback or by
\* the stdin task, every client connected to /listen at that moment is
\* eventually sent "refresh", however many clients there are.
C31_EveryClientRefreshed ==
    \A c \in Clients : (c \in vowed) ~> (c \notin vowed)

\* C32: once Ctrl+C is received, watch() eventually goes through its
\* shutdown branch (unwatch, remove the output) and returns, and the stdin
\* task ends too, whatever the tasks were doing when the signal came.
C32_Stopped ==
    /\ vmain = "returned"
    /\ vret \in {"ok", "remove error", "unwatch error"}
    /\ vjob.stdin \in {"done", "dead"}
\* A watch() that already ended with an error of the watcher, or unwound,
\* is not held against the statement.
C32_Failed == vmain = "returned" /\ vret \in {"watcher error", "panic"}
C32_CtrlCStopsEverything ==
    (vctrlc = "signalled") ~> (C32_Stopped \/ C32_Failed)

\* C38: a compile() that returns Err never stops watch(). After a failed
\* initial compile watch goes on to spawn its tasks, and to the watcher and
\* the server unless the watcher itself fails; a job whose recompilation
\* failed is never ended by it, its next step is changed.notify_one(), which
\* it does reach, and once the callback has returned a change of a .typ file
\* starts a recompilation again.
Rest(k) == IF k = "stdin" THEN "start" ELSE "idle"
TypChange == [kind |-> ContentChange, paths |-> <<Some(<<"t", "y", "p">>)>>]
C38_Inv ==
    /\ vinit = "err" => (vmain # "returned" \/ vret = "watcher error")
    /\ \A k \in Jobs :
         /\ vjob[k] # "dead"
         /\ vres[k] = "err" => vjob[k] = "notify"
    /\ (vwatch = "watching" /\ vjob.callback = "idle") =>
         ENABLED (CallbackEvent(TypChange) /\ vjob'.callback = "compiling")
C38_Step ==
    /\ (vmain = "initial" /\ vinit' = "err") => vmain' = "spawn"
    /\ \A k \in Jobs :
         (vres[k] = "err" /\ vjob'[k] # vjob[k]) =>
             /\ vjob'[k] = Rest(k)
             /\ vpermit' \/ Len(vwaiters') < Len(vwaiters)
C38_Live ==
    /\ (vinit = "err") ~>
           ((vmain = "select" /\ vwatch = "watching") \/ vret = "watcher error")
    /\ \A k \in Jobs : (vres[k] = "err") ~> (vres[k] = "none" /\ vjob[k] = Rest(k))
====
